---- MODULE Spec2Model ----
(***************************************************************************)
(* A model of the equality-saturation engine of wasabi315/eqsat:           *)
(* the union-find (src/union-find.ts) and the e-graph with inline repair   *)
(* (src/egraph.ts).                                                        *)
(*                                                                         *)
(* Immutable.js Map and Set values are modelled as insertion-ordered       *)
(* sequences without duplicate keys: that is the iteration order of the    *)
(* array-backed maps Immutable.js uses for collections of at most eight    *)
(* entries, which is all the bounds below allow.  A JavaScript `undefined` *)
(* e-class id is the value Undef.                                          *)
(***************************************************************************)
EXTENDS Integers, Sequences, FiniteSets, TLC

VARIABLES parent, rank, classes, order, hashcons, tracked, sat, uf, lang, wl

vars == <<parent, rank, classes, order, hashcons, tracked, sat, uf, lang, wl>>

(* ---------------------------- bounds ----------------------------------- *)

\* Largest number of e-class ids the union-find may allocate.
MaxIds == 4

\* Largest depth of a ground term handed to addTerm (a leaf has depth 0).
MaxDepth == 2

\* Largest number of e-class ids where f takes one child or two (SpecM).
MaxIdsM == 3

\* equality_saturation is followed while its e-graph has at most MaxIdsS ids,
\* on rewrite lists of at most MaxRules rules, with maxIteration at most
\* MaxIteration or left to its default.
MaxIdsS == 8

MaxRules == 2

MaxIteration == 2

\* Largest number of keys of a UnionFind used on its own (SpecU).
MaxKeys == 4

\* Longest input typed into parseTerm and parsePattern, and the largest
\* depth and number of children of the printed terms and patterns (SpecL).
MaxText == 6

MaxDepthL == 2

MaxArityL == 2

(* ---------------------------- values ----------------------------------- *)

\* JavaScript `undefined` where an e-class id is expected.
Undef == 0 - 1

\* Number.MAX_VALUE: the float that absorbs the addition or subtraction of
\* any small number.
MAX_VALUE == 1000000

Range(s) == {s[i] : i \in 1..Len(s)}

createENode(op, children) == [op |-> op, children |-> children]

mkTerm(op, children) == [op |-> op, children |-> children]

\* The `undefined` that extractSmallest leaves where a Term is expected.
UndefTerm == [op |-> "<undefined>", children |-> <<>>]

(* ------------------ Immutable.js ordered collections ------------------- *)

\* Map<K,V> as a sequence of <<key, value>> pairs, Set<K> as a sequence.
MapHas(m, k) == \E i \in 1..Len(m) : m[i][1] = k

MapGet(m, k) ==
  IF MapHas(m, k) THEN m[CHOOSE i \in 1..Len(m) : m[i][1] = k][2] ELSE Undef

MapSet(m, k, v) ==
  IF MapHas(m, k)
  THEN [i \in 1..Len(m) |-> IF m[i][1] = k THEN <<k, v>> ELSE m[i]]
  ELSE Append(m, <<k, v>>)

RECURSIVE MapConcat(_, _)
MapConcat(m1, m2) ==
  IF m2 = <<>> THEN m1
  ELSE MapConcat(MapSet(m1, Head(m2)[1], Head(m2)[2]), Tail(m2))

SetAdd(s, x) == IF x \in Range(s) THEN s ELSE Append(s, x)

RECURSIVE SetUnion(_, _)
SetUnion(s1, s2) ==
  IF s2 = <<>> THEN s1 ELSE SetUnion(SetAdd(s1, Head(s2)), Tail(s2))

\* hashcons and classes are only looked up, never iterated by merge, add or
\* repair: they are functions.
FunSet(f, k, v) == [x \in DOMAIN f \cup {k} |-> IF x = k THEN v ELSE f[x]]

FunDelete(f, k) == [x \in DOMAIN f \ {k} |-> f[x]]

FunGet(f, k) == IF k \in DOMAIN f THEN f[k] ELSE Undef

EmptyFun == [x \in {} |-> Undef]

(* ----------------------------- UnionFind ------------------------------- *)

\* find(x) with path compression; returns the new parent array and the root.
\* this.parent[undefined] is undefined, so find(undefined) is undefined.
find_parentOnly(p, x) == [parent |-> p, key |-> p[x]]

RECURSIVE find(_, _)
find(p, x) ==
  IF x = Undef THEN [parent |-> p, key |-> Undef]
  ELSE IF p[x] # x
       THEN LET r == find(p, p[x])
            IN [parent |-> [r.parent EXCEPT ![x] = r.key], key |-> r.key]
       ELSE [parent |-> p, key |-> p[x]]

\* The root find(x) returns, without the compression.
Root(p, x) == find(p, x).key

\* union, `if (rootX === rootY) return null`
sameSet_never(rootX, rootY) == FALSE

sameSet(rootX, rootY) == rootX = rootY

\* union, `this.parent[child] = root`
link_none(p, child, root) == p

link(p, child, root) == [p EXCEPT ![child] = root]

\* union, `this.rank[rootX]++`
bumpRank_never(rk, rootX) == rk

bumpRank(rk, rootX) == [rk EXCEPT ![rootX] = rk[rootX] + 1]

\* union(x, y): null is [null |-> TRUE]; otherwise the survivor and the
\* absorbed root.
union(p, rk, x, y) ==
  LET fx == find(p, x)
      fy == find(fx.parent, y)
      rootX == fx.key
      rootY == fy.key
      p2 == fy.parent
  IN IF sameSet(rootX, rootY)
     THEN [null |-> TRUE, parent |-> p2, rank |-> rk, root |-> rootX, child |-> rootY]
     ELSE IF rk[rootX] < rk[rootY]
     THEN [null |-> FALSE, parent |-> link(p2, rootX, rootY), rank |-> rk,
           root |-> rootY, child |-> rootX]
     ELSE IF rk[rootX] > rk[rootY]
     THEN [null |-> FALSE, parent |-> link(p2, rootY, rootX), rank |-> rk,
           root |-> rootX, child |-> rootY]
     ELSE [null |-> FALSE, parent |-> link(p2, rootY, rootX),
           rank |-> bumpRank(rk, rootX),
           root |-> rootX, child |-> rootY]

connected(p, x, y) == Root(p, x) = Root(p, y)

\* extend(): the new key is the old length of the parent array.
extend_underKey0(p, rk) ==
  LET newKey == Cardinality(DOMAIN p)
  IN [parent |-> FunSet(p, newKey, 0), rank |-> FunSet(rk, newKey, 0), key |-> newKey]

extend(p, rk) ==
  LET newKey == Cardinality(DOMAIN p)
  IN [parent |-> FunSet(p, newKey, newKey), rank |-> FunSet(rk, newKey, 0),
      key |-> newKey]

size(p) == Cardinality(DOMAIN p)

(* ------------------------------- EGraph -------------------------------- *)

\* An e-graph value: the fields of the EGraph object.  classes is an
\* Immutable Map of at most 8 entries, which iterates in the order of its
\* entry array: order is that array's sequence of keys.
EG(p, rk, cl, ord, hc) ==
  [parent |-> p, rank |-> rk, classes |-> cl, order |-> ord, hashcons |-> hc]

\* The entry array after classes.set(k, _) of a new key: appended.
keysSet(ord, k) == Append(ord, k)

\* The entry array after classes.delete(k): the last entry takes the place
\* of the removed one.
keysDelete(ord, k) ==
  IF \A i \in 1..Len(ord) : ord[i] # k THEN ord
  ELSE LET idx == CHOOSE i \in 1..Len(ord) : ord[i] = k
           last == ord[Len(ord)]
           front == SubSeq(ord, 1, Len(ord) - 1)
       IN IF idx = Len(ord) THEN front ELSE [front EXCEPT ![idx] = last]

createSingletonEClass(enode) ==
  [nodes |-> <<enode>>, originalNode |-> enode, parents |-> <<>>]

classCount(eg) == Cardinality(DOMAIN eg.classes)

nodeCount(eg) == Cardinality(DOMAIN eg.hashcons)

\* canonicalize(enode): every child replaced by find(child); the finds
\* compress paths, so the parent array is returned too.
RECURSIVE canonChildren(_, _)
canonChildren(p, cs) ==
  IF cs = <<>> THEN [parent |-> p, children |-> <<>>]
  ELSE LET f == find(p, Head(cs))
           r == canonChildren(f.parent, Tail(cs))
       IN [parent |-> r.parent, children |-> <<f.key>> \o r.children]

canonicalize(p, enode) ==
  LET r == canonChildren(p, enode.children)
  IN [parent |-> r.parent, node |-> createENode(enode.op, r.children)]

\* The loop of add that records the new e-node in its children's parents.
\* this.classes.get(child_id) is undefined for an undefined child id, and
\* the access to its parents then throws a TypeError that ends add.
addParents_none(cl, cs, enode, eid) == [classes |-> cl, threw |-> FALSE]

RECURSIVE addParents(_, _, _, _)
addParents(cl, cs, enode, eid) ==
  IF cs = <<>> THEN [classes |-> cl, threw |-> FALSE]
  ELSE IF Head(cs) \notin DOMAIN cl THEN [classes |-> cl, threw |-> TRUE]
  ELSE addParents(
         [cl EXCEPT ![Head(cs)].parents = MapSet(@, enode, eid)],
         Tail(cs), enode, eid)

\* add(enode): ret is the id returned; threw is TRUE when the call ends in
\* an exception instead, with the e-graph as the exception leaves it.
add(eg, enode0) ==
  LET c == canonicalize(eg.parent, enode0)
      enode == c.node
      hit == FunGet(eg.hashcons, enode)
  IN IF hit # Undef
     THEN [eg |-> [eg EXCEPT !.parent = c.parent], ret |-> hit, threw |-> FALSE]
     ELSE LET e == extend(c.parent, eg.rank)
              eid == e.key
              hc == FunSet(eg.hashcons, enode, eid)
              cl == FunSet(eg.classes, eid, createSingletonEClass(enode))
              ap == addParents(cl, enode.children, enode, eid)
          IN [eg |-> EG(e.parent, e.rank, ap.classes, keysSet(eg.order, eid), hc),
              ret |-> IF ap.threw THEN Undef ELSE eid,
              threw |-> ap.threw]

RECURSIVE merge(_, _, _)
RECURSIVE repairLoop(_, _, _, _)
RECURSIVE repairNext(_, _, _)

\* repair, `this.hashcons = this.hashcons.delete(parentENode).set(newParentNode,
\* newParentEid)`
rekey_keepsStaleKey(hc, parentENode, newParentNode, newParentEid) ==
  FunSet(hc, parentENode, newParentEid)

rekey(hc, parentENode, newParentNode, newParentEid) ==
  FunSet(FunDelete(hc, parentENode), newParentNode, newParentEid)

\* The test `if (newParentEid2)` of repair: undefined is falsy, and so is
\* the e-class id 0.
truthy(v) == v # Undef /\ v # 0

\* repair(eclass): eclass is the object created for id `eid`; the loop runs
\* over the parents it had when the loop started.
repair(eg, eid) ==
  LET r == repairLoop(eg, eg.classes[eid].parents, 1, <<>>)
  IN \* eclass.parents = dedupParents; an object that a nested merge removed
     \* from classes is no longer reachable, the write is then unobservable
     IF eid \in DOMAIN r.eg.classes
     THEN [r.eg EXCEPT !.classes[eid].parents = r.dedup]
     ELSE r.eg

\* One iteration of the loop of repair up to the test `if (newParentEid2)`:
\* the hashcons entry is rewritten; nested tells whether merge(eid1, eid2)
\* is called next, and dedup is dedupParents at the end of the iteration.
repairStep(eg, ps, i, dedupParents) ==
  LET parentENode == ps[i][1]
      parentEClassId == ps[i][2]
      c == canonicalize(eg.parent, parentENode)
      newParentNode == c.node
      f == find(c.parent, parentEClassId)
      newParentEid == f.key
      hc == rekey(eg.hashcons, parentENode, newParentNode, newParentEid)
      newParentEid2 == MapGet(dedupParents, newParentNode)
  IN [eg |-> [eg EXCEPT !.parent = f.parent, !.hashcons = hc],
      nested |-> truthy(newParentEid2),
      eid1 |-> parentEClassId,
      eid2 |-> newParentEid2,
      dedup |-> MapSet(dedupParents, newParentNode, newParentEid)]

repairLoop(eg, ps, i, dedupParents) ==
  IF i > Len(ps) THEN [eg |-> eg, dedup |-> dedupParents]
  ELSE repairNext(repairStep(eg, ps, i, dedupParents), ps, i)

\* the rest of the iteration after step s: the nested merge, if any
repairNext(s, ps, i) ==
  repairLoop(IF s.nested THEN merge(s.eg, s.eid1, s.eid2).eg ELSE s.eg,
             ps, i + 1, s.dedup)

\* merge, `if (!unionResult) return false`
mergeNoop_returnsTrue(eg, u) == [eg |-> [eg EXCEPT !.parent = u.parent], ret |-> TRUE]

mergeNoop(eg, u) == [eg |-> [eg EXCEPT !.parent = u.parent], ret |-> FALSE]

\* merge, `this.classes = this.classes.delete(oldRootId)`
deleteOldRoot_keeps(cl, oldRootId) == cl

deleteOldRoot(cl, oldRootId) == FunDelete(cl, oldRootId)

\* merge, the rewrite of the hashcons entry of oldRoot.originalNode; eid is
\* undefined when that node is no longer a key.
rewriteOriginal(p, hc, originalNode) ==
  LET eid == FunGet(hc, originalNode)
      c == canonicalize(p, originalNode)
      f == find(c.parent, eid)
  IN [parent |-> f.parent,
      hashcons |-> FunSet(FunDelete(hc, originalNode), c.node, f.key)]

\* merge, `newRoot.nodes = ...; newRoot.parents = ...`
foldInto(newRoot, oldRoot) ==
  [newRoot EXCEPT !.nodes = SetUnion(newRoot.nodes, oldRoot.nodes),
                  !.parents = MapConcat(newRoot.parents, oldRoot.parents)]

\* merge up to the call `this.repair(newRoot)`, u being the non-null
\* result of union
beforeRepair(eg, u) ==
  LET newRootId == u.root
      oldRootId == u.child
      newRoot == eg.classes[newRootId]
      oldRoot == eg.classes[oldRootId]
      cl1 == deleteOldRoot(eg.classes, oldRootId)
      h == rewriteOriginal(u.parent, eg.hashcons, oldRoot.originalNode)
      cl2 == [cl1 EXCEPT ![newRootId] = foldInto(newRoot, oldRoot)]
  IN EG(h.parent, u.rank, cl2, keysDelete(eg.order, oldRootId), h.hashcons)

mergeWith(eg, u) ==
  IF u.null
  THEN mergeNoop(eg, u)
  ELSE [eg |-> repair(beforeRepair(eg, u), u.root), ret |-> TRUE]

merge(eg, eid1, eid2) == mergeWith(eg, union(eg.parent, eg.rank, eid1, eid2))

\* addTerm(term): children first, left to right, then the node itself.
RECURSIVE addTerm(_, _)
RECURSIVE addTerms(_, _)
addTerms(eg, ts) ==
  IF ts = <<>> THEN [eg |-> eg, ids |-> <<>>, threw |-> FALSE]
  ELSE LET h == addTerm(eg, Head(ts))
       IN IF h.threw THEN [eg |-> h.eg, ids |-> <<>>, threw |-> TRUE]
          ELSE LET r == addTerms(h.eg, Tail(ts))
               IN [eg |-> r.eg, ids |-> <<h.ret>> \o r.ids, threw |-> r.threw]

addTerm(eg, term) ==
  LET r == addTerms(eg, term.children)
  IN IF r.threw THEN [eg |-> r.eg, ret |-> Undef, threw |-> TRUE]
     ELSE add(r.eg, createENode(term.op, r.ids))

\* addPattern(subst, pattern): a variable is looked up in subst (undefined
\* when unbound), a node is built from its children like addTerm.
RECURSIVE addPattern(_, _, _)
RECURSIVE addPatterns(_, _, _)
addPatterns(eg, subst, ps) ==
  IF ps = <<>> THEN [eg |-> eg, ids |-> <<>>, threw |-> FALSE]
  ELSE LET h == addPattern(eg, subst, Head(ps))
       IN IF h.threw THEN [eg |-> h.eg, ids |-> <<>>, threw |-> TRUE]
          ELSE LET r == addPatterns(h.eg, subst, Tail(ps))
               IN [eg |-> r.eg, ids |-> <<h.ret>> \o r.ids, threw |-> r.threw]

addPattern(eg, subst, pattern) ==
  IF pattern.tag = "var"
  THEN [eg |-> eg, ret |-> FunGet(subst, pattern.name), threw |-> FALSE]
  ELSE LET r == addPatterns(eg, subst, pattern.children)
       IN IF r.threw THEN [eg |-> r.eg, ret |-> Undef, threw |-> TRUE]
          ELSE add(r.eg, createENode(pattern.op, r.ids))

(* ------------------------------- ematch -------------------------------- *)

Min(a, b) == IF a < b THEN a ELSE b

\* worker(egraph, pattern, eid, subst) run to completion on an e-graph that
\* nothing else modifies meanwhile: the sequence of substitutions it yields,
\* and the parent array after the finds it made.
RECURSIVE worker(_, _, _, _, _)
RECURSIVE matchChildren(_, _, _, _, _, _)
RECURSIVE flatMapWorker(_, _, _, _, _)
RECURSIVE matchNodes(_, _, _, _, _)

\* The test of the "var" case: the variable is unbound, or bound to eid.
consistent_always(entry, eid) == TRUE

consistent_unboundOnly(entry, eid) == entry = Undef

consistent(entry, eid) == entry = Undef \/ entry = eid

\* substs.flatMap((sub) => worker(egraph, childPattern, childEid, sub))
flatMapWorker(p, cl, childPattern, childEid, substs) ==
  IF substs = <<>> THEN [parent |-> p, out |-> <<>>]
  ELSE LET h == worker(p, cl, childPattern, childEid, Head(substs))
           r == flatMapWorker(h.parent, cl, childPattern, childEid, Tail(substs))
       IN [out |-> h.out \o r.out, parent |-> r.parent]

\* the loop over List(pattern.children).zip(enode.children): zip stops at
\* the end of the shorter list
matchChildren(p, cl, pcs, ecs, i, substs) ==
  IF i > Min(Len(pcs), Len(ecs)) THEN [parent |-> p, out |-> substs]
  ELSE LET r == flatMapWorker(p, cl, pcs[i], ecs[i], substs)
       IN matchChildren(r.parent, cl, pcs, ecs, i + 1, r.out)

\* the loop over eclass.nodes
matchNodes(p, cl, pattern, nodes, subst) ==
  IF nodes = <<>> THEN [parent |-> p, out |-> <<>>]
  ELSE LET enode == Head(nodes)
           h == IF pattern.op # enode.op
                THEN [parent |-> p, out |-> <<>>]
                ELSE matchChildren(p, cl, pattern.children, enode.children, 1, <<subst>>)
           r == matchNodes(h.parent, cl, pattern, Tail(nodes), subst)
       IN [out |-> h.out \o r.out, parent |-> r.parent]

worker(p, cl, pattern, eid0, subst) ==
  LET f == find(p, eid0)
      eid == f.key
  IN IF pattern.tag = "var"
     THEN LET entry == FunGet(subst, pattern.name)
          IN [parent |-> f.parent,
              out |-> IF consistent(entry, eid)
                      THEN <<FunSet(subst, pattern.name, eid)>>
                      ELSE <<>>]
     ELSE matchNodes(f.parent, cl, pattern, cl[eid].nodes, subst)

RECURSIVE ematchKeys(_, _, _, _)
ematchKeys(p, cl, pattern, keys) ==
  IF keys = <<>> THEN [parent |-> p, out |-> <<>>]
  ELSE LET h == worker(p, cl, pattern, Head(keys), EmptyFun)
           r == ematchKeys(h.parent, cl, pattern, Tail(keys))
       IN [out |-> [i \in 1..Len(h.out) |-> <<h.out[i], Head(keys)>>] \o r.out,
           parent |-> r.parent]

\* ematch(pattern), every pair [subst, eid] it yields.
ematch(eg, pattern) ==
  ematchKeys(eg.parent, eg.classes, pattern, eg.order)

(* --------------------------- extractSmallest --------------------------- *)

\* Floating-point arithmetic around Number.MAX_VALUE: adding or subtracting
\* a small number leaves MAX_VALUE unchanged.
FAdd_dropsRight(x, y) == x

FAdd(x, y) == IF x = MAX_VALUE \/ y = MAX_VALUE THEN MAX_VALUE ELSE x + y

FSub(x, y) ==
  IF x = MAX_VALUE THEN (IF y = MAX_VALUE THEN 0 ELSE MAX_VALUE) ELSE x - y

\* worker(visited, upperBound, eid) of extractSmallest.  threw is TRUE when
\* it ends in `throw new Error()`.
RECURSIVE exWorker(_, _, _, _, _)
RECURSIVE exChildren(_, _, _, _, _, _, _, _)
RECURSIVE exNodes(_, _, _, _, _, _)

\* the inner loop over enode.children, inside the try block
exChildren(p, cl, newVisited, minSize, cs, i, accChildren, accSize) ==
  IF i > Len(cs)
  THEN [parent |-> p, threw |-> FALSE, terms |-> accChildren, size |-> accSize]
  ELSE LET r == exWorker(p, cl, newVisited, FSub(minSize, accSize), cs[i])
       IN IF r.threw
          THEN [parent |-> r.parent, threw |-> TRUE, terms |-> accChildren, size |-> accSize]
          ELSE exChildren(r.parent, cl, newVisited, minSize, cs, i + 1,
                          Append(accChildren, r.term), FAdd(accSize, r.size))

\* the loop over eclass.nodes: a node whose children threw is skipped, any
\* other node replaces minTerm and minSize
exNodes(p, cl, newVisited, nodes, minTerm, minSize) ==
  IF nodes = <<>> THEN [parent |-> p, threw |-> FALSE, term |-> minTerm, size |-> minSize]
  ELSE LET enode == Head(nodes)
           r == exChildren(p, cl, newVisited, minSize, enode.children, 1, <<>>, 1)
       IN IF r.threw
          THEN exNodes(r.parent, cl, newVisited, Tail(nodes), minTerm, minSize)
          ELSE exNodes(r.parent, cl, newVisited, Tail(nodes),
                       mkTerm(enode.op, r.terms), r.size)

exWorker(p, cl, visited, upperBound, eid0) ==
  LET f == find(p, eid0)
      eid == f.key
  IN IF eid \in visited \/ upperBound < 0
     THEN [parent |-> f.parent, threw |-> TRUE, term |-> UndefTerm, size |-> 0]
     ELSE exNodes(f.parent, cl, visited \cup {eid}, cl[eid].nodes, UndefTerm, upperBound)

extractSmallest(eg, eid) == exWorker(eg.parent, eg.classes, {}, MAX_VALUE, eid)

\* extract_smallest(eid) of the older e-graph (src/unnamed/part_000): no
\* upper bound; every node is tried and kept only when its size is strictly
\* smaller than the best so far.
RECURSIVE esWorker(_, _, _, _)
RECURSIVE esChildren(_, _, _, _, _, _, _)
RECURSIVE esNodes(_, _, _, _, _, _)

\* enode.children.map((child) => worker(newVisited, child)), and the sum of
\* the sizes
esChildren(p, cl, newVisited, cs, i, childTerm, childSize) ==
  IF i > Len(cs)
  THEN [parent |-> p, threw |-> FALSE, terms |-> childTerm, size |-> childSize]
  ELSE LET r == esWorker(p, cl, newVisited, cs[i])
       IN IF r.threw
          THEN [parent |-> r.parent, threw |-> TRUE, terms |-> childTerm, size |-> childSize]
          ELSE esChildren(r.parent, cl, newVisited, cs, i + 1,
                          Append(childTerm, r.term), FAdd(childSize, r.size))

\* the loop over eclass.nodes with `if (size < minSize)`
esNodes(p, cl, newVisited, nodes, minTerm, minSize) ==
  IF nodes = <<>> THEN [parent |-> p, threw |-> FALSE, term |-> minTerm, size |-> minSize]
  ELSE LET enode == Head(nodes)
           r == esChildren(p, cl, newVisited, enode.children, 1, <<>>, 0)
       IN IF r.threw \/ ~(FAdd(1, r.size) < minSize)
          THEN esNodes(r.parent, cl, newVisited, Tail(nodes), minTerm, minSize)
          ELSE esNodes(r.parent, cl, newVisited, Tail(nodes),
                       mkTerm(enode.op, r.terms), FAdd(1, r.size))

esWorker(p, cl, visited, eid0) ==
  LET f == find(p, eid0)
      eid == f.key
  IN IF eid \in visited
     THEN [parent |-> f.parent, threw |-> TRUE, term |-> UndefTerm, size |-> 0]
     ELSE esNodes(f.parent, cl, visited \cup {eid}, cl[eid].nodes, UndefTerm, MAX_VALUE)

extract_smallest(eg, eid) == esWorker(eg.parent, eg.classes, {}, eid)

(* ------------- the worklist EGraph of src/unnamed/part_000 ------------- *)

\* The older EGraph keeps the parents of an e-class in a mutable Array of
\* [enode, eid] pairs.  Between calls an older e-graph is the record
\* [parent, rank, classes, hashcons] with every parents array given by its
\* contents.  During merge the arrays are objects: classes[c].parents is then
\* a key of `arrays`, `next` is the key of the next array to be allocated,
\* and worklist is this.worklist.
WL(p, rk, cl, hc) == [parent |-> p, rank |-> rk, classes |-> cl, hashcons |-> hc]

\* add, `child.parents.push([enode, eid])` for every child
RECURSIVE pushParents(_, _, _, _)
pushParents(cl, cs, enode, eid) ==
  IF cs = <<>> THEN [classes |-> cl, threw |-> FALSE]
  ELSE IF Head(cs) \notin DOMAIN cl THEN [classes |-> cl, threw |-> TRUE]
  ELSE pushParents(
         [cl EXCEPT ![Head(cs)].parents = Append(@, <<enode, eid>>)],
         Tail(cs), enode, eid)

\* add(enode) of the older EGraph
wl_add(w, enode0) ==
  LET c == canonicalize(w.parent, enode0)
      enode == c.node
      hit == FunGet(w.hashcons, enode)
  IN IF hit # Undef
     THEN [eg |-> [w EXCEPT !.parent = c.parent], ret |-> hit, threw |-> FALSE]
     ELSE LET e == extend(c.parent, w.rank)
              eid == e.key
              hc == FunSet(w.hashcons, enode, eid)
              cl == FunSet(w.classes, eid, createSingletonEClass(enode))
              ap == pushParents(cl, enode.children, enode, eid)
          IN [eg |-> WL(e.parent, e.rank, ap.classes, hc),
              ret |-> IF ap.threw THEN Undef ELSE eid,
              threw |-> ap.threw]

\* addTerm(term) of the older EGraph
RECURSIVE wl_addTerm(_, _)
RECURSIVE wl_addTerms(_, _)
wl_addTerms(w, ts) ==
  IF ts = <<>> THEN [eg |-> w, ids |-> <<>>, threw |-> FALSE]
  ELSE LET h == wl_addTerm(w, Head(ts))
       IN IF h.threw THEN [eg |-> h.eg, ids |-> <<>>, threw |-> TRUE]
          ELSE LET r == wl_addTerms(h.eg, Tail(ts))
               IN [eg |-> r.eg, ids |-> <<h.ret>> \o r.ids, threw |-> r.threw]

wl_addTerm(w, term) ==
  LET r == wl_addTerms(w, term.children)
  IN IF r.threw THEN [eg |-> r.eg, ret |-> Undef, threw |-> TRUE]
     ELSE wl_add(r.eg, createENode(term.op, r.ids))

\* The objects of an older e-graph at the start of a call: the parents array
\* of class c is the object c, the worklist is empty.
heapOf(w) ==
  [parent |-> w.parent, rank |-> w.rank, hashcons |-> w.hashcons,
   classes |-> [c \in DOMAIN w.classes |-> [w.classes[c] EXCEPT !.parents = c]],
   arrays |-> [c \in DOMAIN w.classes |-> w.classes[c].parents],
   next |-> Cardinality(DOMAIN w.parent),
   worklist |-> <<>>]

\* The older e-graph that the objects make up at the end of a call.
graphOf(h) ==
  WL(h.parent, h.rank,
     [c \in DOMAIN h.classes |->
        [h.classes[c] EXCEPT !.parents = h.arrays[h.classes[c].parents]]],
     h.hashcons)

RECURSIVE wl_merge(_, _, _)
RECURSIVE rebuild(_)
RECURSIVE repairTodo(_, _, _)
RECURSIVE rekeyLoop(_, _, _)
RECURSIVE dedupLoop(_, _, _, _, _)
RECURSIVE dedupNext(_, _, _, _)
RECURSIVE wl_repair(_, _)

\* merge, `newRoot.parents.push(...oldRoot.parents)`: the array of newRoot
\* grows in place
pushAll(arrays, to, from) == [arrays EXCEPT ![to] = @ \o arrays[from]]

\* merge of the older EGraph up to the call `this.rebuild()`, u being the
\* non-null result of union
beforeRebuild(h, u) ==
  LET newRootId == u.root
      oldRootId == u.child
      newRoot == h.classes[newRootId]
      oldRoot == h.classes[oldRootId]
      cl1 == FunDelete(h.classes, oldRootId)
      r == rewriteOriginal(u.parent, h.hashcons, oldRoot.originalNode)
      cl2 == [cl1 EXCEPT ![newRootId].nodes = SetUnion(newRoot.nodes, oldRoot.nodes)]
  IN [h EXCEPT !.parent = r.parent, !.rank = u.rank, !.classes = cl2,
               !.hashcons = r.hashcons,
               !.arrays = pushAll(h.arrays, newRoot.parents, oldRoot.parents),
               !.worklist = Append(h.worklist, newRootId)]

wl_mergeWith(h, u) ==
  IF u.null
  THEN [eg |-> [h EXCEPT !.parent = u.parent], ret |-> FALSE]
  ELSE [eg |-> rebuild(beforeRebuild(h, u)), ret |-> TRUE]

wl_merge(h, eid1, eid2) == wl_mergeWith(h, union(h.parent, h.rank, eid1, eid2))

\* rebuild, `Set(this.worklist.map((id) => this.unionFind.find(id)))`
RECURSIVE findAll(_, _)
findAll(p, ids) ==
  IF ids = <<>> THEN [parent |-> p, todo |-> <<>>]
  ELSE LET f == find(p, Head(ids))
           r == findAll(f.parent, Tail(ids))
       IN [parent |-> r.parent, todo |-> SetUnion(<<f.key>>, r.todo)]

\* rebuild(): one turn of the while loop takes the worklist, empties it and
\* repairs every class taken
rebuildTurn(h, t) == repairTodo([h EXCEPT !.parent = t.parent, !.worklist = <<>>], t.todo, 1)

rebuild(h) ==
  IF h.worklist = <<>> THEN h ELSE rebuildTurn(h, findAll(h.parent, h.worklist))

repairTodo(h, todo, i) ==
  IF i > Len(todo) THEN rebuild(h)
  ELSE repairTodo(wl_repair(h, todo[i]), todo, i + 1)

\* repair, the first loop: every parent's hashcons entry is rewritten.  A
\* for-of loop over an Array reads its length at every step: a is the array
\* object the loop started on.
rekeyStep(h, parentENode, parentEClassId) ==
  LET c == canonicalize(h.parent, parentENode)
      f == find(c.parent, parentEClassId)
  IN [h EXCEPT !.parent = f.parent,
               !.hashcons = rekey(h.hashcons, parentENode, c.node, f.key)]

rekeyLoop(h, a, i) ==
  IF i > Len(h.arrays[a]) THEN h
  ELSE rekeyLoop(rekeyStep(h, h.arrays[a][i][1], h.arrays[a][i][2]), a, i + 1)

\* repair, one iteration of the second loop up to the test
\* `if (newParentEClassId2)`
dedupStep(h, parentENode, parentEClassId, dedupParents) ==
  LET c == canonicalize(h.parent, parentENode)
      newParentNode == c.node
      f == find(c.parent, parentEClassId)
      newParentEClass == f.key
      newParentEClassId2 == MapGet(dedupParents, newParentNode)
  IN [eg |-> [h EXCEPT !.parent = f.parent],
      nested |-> truthy(newParentEClassId2),
      eid1 |-> parentEClassId,
      eid2 |-> newParentEClassId2,
      dedup |-> MapSet(dedupParents, newParentNode, newParentEClass)]

\* repair, `eclass.parents = dedupParents.toArray()`: a new array; eclass is
\* the object created for id eid, unreachable once a nested merge has
\* removed it from classes
storeParents(h, eid, dedupParents) ==
  IF eid \in DOMAIN h.classes
  THEN [h EXCEPT !.classes[eid].parents = h.next,
                 !.arrays = FunSet(h.arrays, h.next, dedupParents),
                 !.next = h.next + 1]
  ELSE h

dedupLoop(h, eid, a, i, dedupParents) ==
  IF i > Len(h.arrays[a]) THEN storeParents(h, eid, dedupParents)
  ELSE dedupNext(dedupStep(h, h.arrays[a][i][1], h.arrays[a][i][2], dedupParents),
                 eid, a, i)

\* the rest of the iteration after step s: the nested merge, if any
dedupNext(s, eid, a, i) ==
  dedupLoop(IF s.nested THEN wl_merge(s.eg, s.eid1, s.eid2).eg ELSE s.eg,
            eid, a, i + 1, s.dedup)

\* repair(eid) of the older EGraph: both loops run over the array that
\* eclass.parents is when repair starts
wl_repair(h, eid) ==
  dedupLoop(rekeyLoop(h, h.classes[eid].parents, 1), eid, h.classes[eid].parents, 1, <<>>)

(* --------------------------- input universes --------------------------- *)

\* Operators used without children.
Leaves == {"a", "b"}

\* The operator used with one child.
Unary == "f"

\* Ground terms of depth at most d.
RECURSIVE TermsUpTo(_)
TermsUpTo(d) ==
  IF d = 0 THEN {mkTerm(op, <<>>) : op \in Leaves}
  ELSE LET S == TermsUpTo(d - 1)
       IN S \cup {mkTerm(Unary, <<t>>) : t \in S}

\* The terms handed to addTerm.
Terms == TermsUpTo(MaxDepth)

PVar(name) == [tag |-> "var", name |-> name]

PNode(op, children) == [tag |-> "node", op |-> op, children |-> children]

\* Patterns of depth at most d over the one variable ?x.
RECURSIVE PatternsUpTo(_)
PatternsUpTo(d) ==
  IF d = 0 THEN {PVar("x")} \cup {PNode(op, <<>>) : op \in Leaves}
  ELSE LET S == PatternsUpTo(d - 1)
       IN S \cup {PNode(Unary, <<q>>) : q \in S}

Patterns == PatternsUpTo(MaxDepth)

RECURSIVE PatternVars(_)
PatternVars(q) ==
  IF q.tag = "var" THEN {q.name}
  ELSE UNION {PatternVars(q.children[i]) : i \in 1..Len(q.children)}

(* ------------------------------ actions -------------------------------- *)

Cur == EG(parent, rank, classes, order, hashcons)

Install(eg) ==
  /\ parent' = eg.parent
  /\ rank' = eg.rank
  /\ classes' = eg.classes
  /\ order' = eg.order
  /\ hashcons' = eg.hashcons

\* tracked remembers the latest addTerm call, its term and the id it
\* returned, as long as no other e-node has been added since.  Only the
\* actions of SpecT maintain it.
NoCall == [term |-> mkTerm("<none>", <<>>), id |-> Undef]

\* No call of equality_saturation is in progress.
Idle ==
  [pc |-> "idle", term |-> UndefTerm, rewrites |-> <<>>, maxIteration |-> 0,
   eid |-> Undef, i |-> 0, sweeps |-> 0, stop |-> "none", result |-> UndefTerm]

\* uf is used by SpecU only: the naive set-of-sets structure of
\* union-find.test.ts run beside the UnionFind and the latest call.  lang is
\* used by SpecL only: the latest call of the parser or printer.
NoModel == [sets |-> <<>>, extended |-> FALSE, call |-> [op |-> "none"]]

NoText == [op |-> "none"]

\* wl is used by SpecW only: the older e-graph of src/unnamed/part_000,
\* whose merge pushes onto a worklist that rebuild drains, given the same
\* calls as the e-graph of src/egraph.ts.  A new older EGraph is empty.
NoOlder == WL(EmptyFun, EmptyFun, EmptyFun, EmptyFun)

Init ==
  /\ parent = EmptyFun
  /\ rank = EmptyFun
  /\ classes = EmptyFun
  /\ order = <<>>
  /\ hashcons = EmptyFun
  /\ tracked = NoCall
  /\ sat = Idle
  /\ uf = NoModel
  /\ lang = NoText
  /\ wl = NoOlder

\* egraph.addTerm(t)
DoAddTerm(t, cap) ==
  LET r == addTerm(Cur, t)
  IN /\ size(r.eg.parent) <= cap
     /\ Install(r.eg)

\* egraph.addPattern(subst, q), every variable of q bound to an allocated id
DoAddPattern(q, x, cap) ==
  LET r == addPattern(Cur, [v \in {"x"} |-> x], q)
  IN /\ PatternVars(q) # {}
     /\ size(r.eg.parent) <= cap
     /\ Install(r.eg)

\* egraph.merge(a, b)
DoMerge(a, b) == Install(merge(Cur, a, b).eg)

AddTerm == \E t \in Terms : DoAddTerm(t, MaxIds) /\ UNCHANGED <<tracked, sat, uf, lang, wl>>

AddPattern ==
  \E q \in Patterns, x \in DOMAIN parent : DoAddPattern(q, x, MaxIds) /\ UNCHANGED <<tracked, sat, uf, lang, wl>>

Merge ==
  \E a \in DOMAIN parent, b \in DOMAIN parent : DoMerge(a, b) /\ UNCHANGED <<tracked, sat, uf, lang, wl>>

\* egraph.extractSmallest(e) on an allocated id: its finds compress paths.
ExtractSmallest ==
  \E e \in DOMAIN parent :
    /\ parent' = extractSmallest(Cur, e).parent
    /\ UNCHANGED <<rank, classes, order, hashcons, tracked, sat, uf, lang, wl>>

\* [...egraph.ematch(q)]: the generator drained with no other call in
\* between; its finds compress paths.
Ematch ==
  \E q \in Patterns :
    /\ parent' = ematch(Cur, q).parent
    /\ UNCHANGED <<rank, classes, order, hashcons, tracked, sat, uf, lang, wl>>

Next == AddTerm \/ AddPattern \/ Merge \/ ExtractSmallest \/ Ematch

Spec == Init /\ [][Next]_vars

\* The same e-graph operations, with the latest addTerm call remembered
\* until another e-node is added.
TrackedAddTerm ==
  \E t \in Terms :
    /\ DoAddTerm(t, MaxIds)
    /\ tracked' = [term |-> t, id |-> addTerm(Cur, t).ret]
    /\ UNCHANGED <<sat, uf, lang, wl>>

UntrackingAddPattern ==
  \E q \in Patterns, x \in DOMAIN parent :
    /\ DoAddPattern(q, x, MaxIds)
    /\ tracked' = IF size(parent') = size(parent) THEN tracked ELSE NoCall
    /\ UNCHANGED <<sat, uf, lang, wl>>

MergeT == \E a \in DOMAIN parent, b \in DOMAIN parent : DoMerge(a, b) /\ UNCHANGED <<tracked, sat, uf, lang, wl>>

NextT == TrackedAddTerm \/ UntrackingAddPattern \/ MergeT

SpecT == Init /\ [][NextT]_vars

(* ------------------- the matcher on operators of mixed arity ----------- *)

\* The terms of Spec and those in which f takes two children: "(f a b)".
TermsM ==
  Terms \cup {mkTerm(Unary, <<t, u>>) : t \in TermsUpTo(0), u \in TermsUpTo(0)}

\* The patterns of Spec and those over ?x and ?y in which f takes two
\* children, with repeated variables: "(f ?x ?y)", "(f ?x ?x)", "(f ?x b)".
PatternsM ==
  LET P0 == {PVar("x"), PVar("y")} \cup {PNode(op, <<>>) : op \in Leaves}
  IN Patterns \cup P0 \cup {PNode(Unary, <<q>>) : q \in P0}
        \cup {PNode(Unary, <<q1, q2>>) : q1 \in P0, q2 \in P0}

AddTermM == \E t \in TermsM : DoAddTerm(t, MaxIdsM) /\ UNCHANGED <<tracked, sat, uf, lang, wl>>

MergeM == \E a \in DOMAIN parent, b \in DOMAIN parent : DoMerge(a, b) /\ UNCHANGED <<tracked, sat, uf, lang, wl>>

EmatchM ==
  \E q \in PatternsM :
    /\ parent' = ematch(Cur, q).parent
    /\ UNCHANGED <<rank, classes, order, hashcons, tracked, sat, uf, lang, wl>>

NextM == AddTermM \/ MergeM \/ EmatchM

SpecM == Init /\ [][NextM]_vars

(* ------------------------- equality_saturation ------------------------- *)

\* The body of the loop over the matches: addPattern(subst, rhs), then
\* merge(eclass, eclass2), then dumpEGraph(egraph).  An unbound variable makes addPattern return
\* undefined (or add throw), and merge(eclass, undefined) throws a TypeError
\* at oldRoot.originalNode; the exception leaves equality_saturation.
\* dumpEGraph(egraph): the eclasses getter reads unionFind.disjointSets,
\* which calls find on every key, so every path is compressed.
dumpEGraph(eg) ==
  [eg EXCEPT !.parent = [x \in DOMAIN eg.parent |-> Root(eg.parent, x)]]

\* merge(eclass, eclass2) and dumpEGraph(egraph), given the outcome a of
\* addPattern(subst, rhs)
mergeAndDump_noMerge(a, eclass) ==
  [eg |-> dumpEGraph(a.eg), threw |-> a.threw \/ a.ret = Undef]

mergeAndDump(a, eclass) ==
  IF a.threw \/ a.ret = Undef
  THEN [eg |-> a.eg, threw |-> TRUE]
  ELSE [eg |-> dumpEGraph(merge(a.eg, eclass, a.ret).eg), threw |-> FALSE]

rewriteOnce(eg, subst, rhs, eclass) ==
  mergeAndDump(addPattern(eg, subst, rhs), eclass)

\* List(pattern.children).zip(enode.children) as the pairs still to match.
zip(pcs, ecs) == [i \in 1..Min(Len(pcs), Len(ecs)) |-> <<pcs[i], ecs[i]>>]

\* The generator ematch(lhs) consumed by the loop of equality_saturation.
\* It is lazy: each worker runs when its first value is pulled, and the loop
\* body runs between two yields, so that the workers read the e-graph as
\* the rewrites so far have left it.  todo is the sequence of pairs
\* [childPattern, childEid] that the pending flatMap stages still have to
\* match for the substitution under construction.
RECURSIVE lazyWorker(_, _, _, _, _)
RECURSIVE lazyFound(_, _, _, _, _, _)
RECURSIVE lazyNodes(_, _, _, _, _, _, _, _)
RECURSIVE lazyNodesNext(_, _, _, _, _, _, _, _)
lazyWorker(eg, todo, subst, rhs, eclass) ==
  IF todo = <<>> THEN rewriteOnce(eg, subst, rhs, eclass)
  ELSE lazyFound(eg, find(eg.parent, Head(todo)[2]), todo, subst, rhs, eclass)

\* the body of worker after `eid = egraph.unionFind.find(eid)`, f being what
\* find returned
lazyFound(eg, f, todo, subst, rhs, eclass) ==
  LET pattern == Head(todo)[1]
      eid == f.key
  IN IF pattern.tag = "var"
     THEN IF consistent(FunGet(subst, pattern.name), eid)
          THEN lazyWorker([eg EXCEPT !.parent = f.parent], Tail(todo),
                          FunSet(subst, pattern.name, eid), rhs, eclass)
          ELSE [eg |-> [eg EXCEPT !.parent = f.parent], threw |-> FALSE]
     ELSE lazyNodes([eg EXCEPT !.parent = f.parent], pattern, eg.classes[eid].nodes, 1,
                    Tail(todo), subst, rhs, eclass)

\* the loop over eclass.nodes, the Set as it was when the loop began
lazyNodes(eg, pattern, nodes, i, todo, subst, rhs, eclass) ==
  IF i > Len(nodes) THEN [eg |-> eg, threw |-> FALSE]
  ELSE lazyNodesNext(IF pattern.op # nodes[i].op
                     THEN [eg |-> eg, threw |-> FALSE]
                     ELSE lazyWorker(eg, zip(pattern.children, nodes[i].children) \o todo,
                                     subst, rhs, eclass),
                     pattern, nodes, i, todo, subst, rhs, eclass)

\* the loop goes on to the next node unless the body threw; r is what the
\* matches of nodes[i] left
lazyNodesNext(r, pattern, nodes, i, todo, subst, rhs, eclass) ==
  IF r.threw THEN r
  ELSE lazyNodes(r.eg, pattern, nodes, i + 1, todo, subst, rhs, eclass)

\* the loop over this.classes.keys(), the Map as it was when ematch began
RECURSIVE lazyKeys(_, _, _, _, _)
RECURSIVE lazyKeysNext(_, _, _, _, _)
lazyKeys(eg, lhs, rhs, keys, i) ==
  IF i > Len(keys) THEN [eg |-> eg, threw |-> FALSE]
  ELSE lazyKeysNext(lazyWorker(eg, <<<<lhs, keys[i]>>>>, EmptyFun, rhs, keys[i]),
                    lhs, rhs, keys, i)

lazyKeysNext(r, lhs, rhs, keys, i) ==
  IF r.threw THEN r ELSE lazyKeys(r.eg, lhs, rhs, keys, i + 1)

\* One sweep: `for (const [lhs, rhs] of rewrites)`.
RECURSIVE sweep(_, _, _)
RECURSIVE sweepNext(_, _, _)
sweep(eg, rewrites, k) ==
  IF k > Len(rewrites) THEN [eg |-> eg, threw |-> FALSE]
  ELSE sweepNext(lazyKeys(eg, rewrites[k][1], rewrites[k][2], eg.order, 1), rewrites, k)

sweepNext(r, rewrites, k) ==
  IF r.threw THEN r ELSE sweep(r.eg, rewrites, k + 1)

\* madeProgress of a sweep from e-graph eg0 to e-graph eg1
madeProgress_classCountOnly(eg0, eg1) == classCount(eg0) # classCount(eg1)

madeProgress(eg0, eg1) ==
  classCount(eg0) # classCount(eg1) \/ nodeCount(eg0) # nodeCount(eg1)

\* The loop test `i < maxIteration`.
loopContinues_always(i, maxIteration) == TRUE

loopContinues(i, maxIteration) == i < maxIteration

\* options?.maxIteration ?? 16
DefaultMaxIteration == 16

maxIterationOf(options) == IF options = Undef THEN DefaultMaxIteration ELSE options

\* The inputs of equality_saturation.  Terms: those of SpecM and the term
\* of main().
Leaf(op) == mkTerm(op, <<>>)

MainTerm == mkTerm("/", <<mkTerm("*", <<Leaf("a"), Leaf("2")>>), Leaf("2")>>)

TermsS == TermsM \cup {MainTerm}

\* The rewrite list of main().
MainRewrites ==
  << <<PNode("*", <<PVar("x"), PNode("2", <<>>)>>),
       PNode("<<", <<PVar("x"), PNode("1", <<>>)>>)>>,
     <<PNode("/", <<PNode("*", <<PVar("x"), PVar("y")>>), PVar("z")>>),
       PNode("*", <<PVar("x"), PNode("/", <<PVar("y"), PVar("z")>>)>>)>>,
     <<PNode("/", <<PVar("x"), PVar("x")>>), PNode("1", <<>>)>>,
     <<PNode("*", <<PVar("x"), PNode("1", <<>>)>>), PVar("x")>> >>

\* A rewrite that grows every term under a binary operator h, followed by
\* one that removes a repeated f: "?x -> (f (h ?x ?x))", "(f (f ?y)) -> (f ?y)".
GrowingRewrites ==
  << <<PVar("x"), PNode(Unary, <<PNode("h", <<PVar("x"), PVar("x")>>)>>)>>,
     <<PNode(Unary, <<PNode(Unary, <<PVar("y")>>)>>), PNode(Unary, <<PVar("y")>>)>> >>

\* Rewrites [lhs, rhs] between patterns with unary and binary f, a nested
\* f, two variables and a repeated variable; lists of two rewrites are drawn
\* from the unary ones over ?x and a.
PatternsS ==
  LET x == PVar("x")
  IN {x, PVar("y"), PNode("a", <<>>), PNode("b", <<>>)}
       \cup {PNode(Unary, <<q>>) : q \in {x, PNode("a", <<>>), PNode(Unary, <<x>>)}}
       \cup {PNode(Unary, <<x, q>>) : q \in {x, PVar("y"), PNode("b", <<>>)}}

RulesS == PatternsS \X PatternsS

RulesS2 ==
  LET P == {PVar("x"), PNode("a", <<>>), PNode(Unary, <<PVar("x")>>)}
  IN P \X P

RewriteListsS ==
  {<<>>} \cup {<<r>> : r \in RulesS}
         \cup (IF MaxRules >= 2 THEN {<<r1, r2>> : r1 \in RulesS2, r2 \in RulesS2} ELSE {})
         \cup {MainRewrites, GrowingRewrites}

OptionsS == {Undef} \cup 0..MaxIteration

\* equality_saturation(term, rewrites, options) up to the loop: a new
\* EGraph, eid = egraph.addTerm(term), dumpEGraph(egraph), i = 0.
DoCall(terms, rewriteLists, optionss) ==
  \E term \in terms, rewrites \in rewriteLists, options \in optionss :
    LET r == addTerm(EG(EmptyFun, EmptyFun, EmptyFun, <<>>, EmptyFun), term)
        maxIteration == maxIterationOf(options)
    IN /\ sat.pc = "idle"
       /\ Install(dumpEGraph(r.eg))
       /\ sat' = [Idle EXCEPT !.pc = IF loopContinues(0, maxIteration) THEN "loop" ELSE "extract",
                              !.term = term, !.rewrites = rewrites,
                              !.maxIteration = maxIteration, !.eid = r.ret,
                              !.stop = IF loopContinues(0, maxIteration) THEN "none" ELSE "cap"]
       /\ UNCHANGED <<tracked, uf, lang, wl>>

Call == DoCall(TermsS, RewriteListsS, OptionsS)

\* One iteration of `for (let i = 0; i < maxIteration; i++)`: a sweep over
\* the rewrites, then the progress test; an exception ends the call.  r is
\* what the sweep left.
SweepTo(r) ==
  /\ sat.pc = "loop"
  /\ size(r.eg.parent) <= MaxIdsS
  /\ Install(r.eg)
  /\ sat' = IF r.threw THEN [sat EXCEPT !.pc = "threw"]
            ELSE IF ~madeProgress(Cur, r.eg)
            THEN [sat EXCEPT !.pc = "extract", !.stop = "progress",
                             !.sweeps = @ + 1]
            ELSE IF loopContinues(sat.i + 1, sat.maxIteration)
            THEN [sat EXCEPT !.i = @ + 1, !.sweeps = @ + 1]
            ELSE [sat EXCEPT !.pc = "extract", !.stop = "cap", !.i = @ + 1,
                             !.sweeps = @ + 1]
  /\ UNCHANGED <<tracked, uf, lang, wl>>

Sweep == SweepTo(sweep(Cur, sat.rewrites, 1))

\* `return egraph.extractSmallest(eid)[0]`
Return ==
  LET r == extractSmallest(Cur, sat.eid)
  IN /\ sat.pc = "extract"
     /\ parent' = r.parent
     /\ sat' = IF r.threw THEN [sat EXCEPT !.pc = "threw"]
               ELSE [sat EXCEPT !.pc = "done", !.result = r.term]
     /\ UNCHANGED <<rank, classes, order, hashcons, tracked, uf, lang, wl>>

NextS == Call \/ Sweep \/ Return

SpecS == Init /\ [][NextS]_vars

\* The calls on a leaf, a unary and a binary term with one rewrite or the
\* growing rewrites, under the scheduling of a single thread: every call
\* that has begun proceeds, so the function runs to its end.
TermsF == {Leaf("a"), mkTerm(Unary, <<Leaf("a")>>), mkTerm(Unary, <<Leaf("a"), Leaf("b")>>)}

RewriteListsF == {<<r>> : r \in RulesS} \cup {GrowingRewrites}

CallF == DoCall(TermsF, RewriteListsF, OptionsS)

NextF == CallF \/ Sweep \/ Return

\* ENABLED <<Sweep>>_vars and ENABLED <<Return>>_vars: the guards of the two
\* actions, each of which changes sat whenever it is taken.
SweepEnabled == sat.pc = "loop" /\ size(sweep(Cur, sat.rewrites, 1).eg.parent) <= MaxIdsS

ReturnEnabled == sat.pc = "extract"

\* WF_vars(Sweep) and WF_vars(Return), with the enabling conditions above.
WeakFairSweep == []<>(~SweepEnabled) \/ []<><<Sweep>>_vars

WeakFairReturn == []<>(~ReturnEnabled) \/ []<><<Return>>_vars

FairSpecF == Init /\ [][NextF]_vars /\ WeakFairSweep /\ WeakFairReturn

(* ------------------------ the UnionFind on its own --------------------- *)

\* new UnionFind(size): every key its own parent, every rank 0.
newUnionFind(n) ==
  [parent |-> [i \in 0..(n - 1) |-> i], rank |-> [i \in 0..(n - 1) |-> 0]]

\* connected(x, y) with the compression of its two finds
connectedCall(p, x, y) ==
  LET fx == find(p, x)
      fy == find(fx.parent, y)
  IN [parent |-> fy.parent, result |-> fx.key = fy.key]

\* The getter disjointSets: a Map from each root to the list of its members,
\* the root first, in the order the keys 0..size-1 are visited; every find
\* compresses.
\* disjointSets, `if (key !== root)`
pushesMember_always(key, root) == TRUE

pushesMember(key, root) == key # root

RECURSIVE disjointSetsLoop(_, _, _)
disjointSetsLoop(p, i, sets) ==
  IF i >= size(p) THEN [parent |-> p, map |-> sets]
  ELSE LET f == find(p, i)
           root == f.key
           s1 == IF ~MapHas(sets, root) THEN MapSet(sets, root, <<root>>) ELSE sets
           s2 == IF pushesMember(i, root) THEN MapSet(s1, root, Append(MapGet(s1, root), i)) ELSE s1
       IN disjointSetsLoop(f.parent, i + 1, s2)

disjointSets(p) == disjointSetsLoop(p, 0, <<>>)

\* UFModel of union-find.test.ts: sets[i + 1] is the set kept at index i.
modelNew(n) == [i \in 1..n |-> {i - 1}]

\* UFModel.find: the first index whose set has x
modelFind(sets, x) ==
  (CHOOSE i \in 1..Len(sets) : x \in sets[i] /\ \A j \in 1..(i - 1) : x \notin sets[j]) - 1

modelUnion(sets, x, y) ==
  LET rootX == modelFind(sets, x)
      rootY == modelFind(sets, y)
  IN IF rootX = rootY
     THEN [null |-> TRUE, sets |-> sets, root |-> rootX, child |-> rootY]
     ELSE [null |-> FALSE,
           sets |-> [sets EXCEPT ![rootX + 1] = @ \cup sets[rootY + 1],
                                 ![rootY + 1] = {}],
           root |-> rootX, child |-> rootY]

modelConnected(sets, x, y) == modelFind(sets, x) = modelFind(sets, y)

\* const uf = new UnionFind(n); const model = new UFModel(n)
InitU ==
  \E n \in 0..MaxKeys :
    /\ parent = newUnionFind(n).parent
    /\ rank = newUnionFind(n).rank
    /\ uf = [sets |-> modelNew(n), extended |-> FALSE, call |-> [op |-> "new", n |-> n]]
    /\ classes = EmptyFun
    /\ order = <<>>
    /\ hashcons = EmptyFun
    /\ tracked = NoCall
    /\ sat = Idle
    /\ lang = NoText
    /\ wl = NoOlder

\* uf.union(x, y), and model.union(x, y) as long as no key has been added
\* to the UnionFind (UFModel has no extend)
UnionU ==
  \E x \in DOMAIN parent, y \in DOMAIN parent :
    LET u == union(parent, rank, x, y)
        m == IF uf.extended THEN [null |-> u.null, sets |-> uf.sets]
             ELSE modelUnion(uf.sets, x, y)
    IN /\ parent' = u.parent
       /\ rank' = u.rank
       /\ uf' = [uf EXCEPT !.sets = m.sets,
                           !.call = [op |-> "union", x |-> x, y |-> y, null |-> u.null,
                                     root |-> u.root, child |-> u.child,
                                     modelNull |-> m.null]]
       /\ UNCHANGED <<classes, order, hashcons, tracked, sat, lang, wl>>

\* uf.find(x)
FindU ==
  \E x \in DOMAIN parent :
    /\ parent' = find(parent, x).parent
    /\ uf' = [uf EXCEPT !.call = [op |-> "find", x |-> x, key |-> find(parent, x).key]]
    /\ UNCHANGED <<rank, classes, order, hashcons, tracked, sat, lang, wl>>

\* uf.connected(x, y)
ConnectedU ==
  \E x \in DOMAIN parent, y \in DOMAIN parent :
    /\ parent' = connectedCall(parent, x, y).parent
    /\ uf' = [uf EXCEPT !.call = [op |-> "connected", x |-> x, y |-> y,
                                  result |-> connectedCall(parent, x, y).result]]
    /\ UNCHANGED <<rank, classes, order, hashcons, tracked, sat, lang, wl>>

\* uf.extend()
ExtendU ==
  /\ size(parent) < MaxKeys
  /\ parent' = extend(parent, rank).parent
  /\ rank' = extend(parent, rank).rank
  /\ uf' = [uf EXCEPT !.extended = TRUE,
                      !.call = [op |-> "extend", key |-> extend(parent, rank).key]]
  /\ UNCHANGED <<classes, order, hashcons, tracked, sat, lang, wl>>

\* uf.disjointSets
DisjointSetsU ==
  /\ parent' = disjointSets(parent).parent
  /\ uf' = [uf EXCEPT !.call = [op |-> "disjointSets", map |-> disjointSets(parent).map]]
  /\ UNCHANGED <<rank, classes, order, hashcons, tracked, sat, lang, wl>>

NextU == UnionU \/ FindU \/ ConnectedU \/ ExtendU \/ DisjointSetsU

SpecU == InitU /\ [][NextU]_vars

(* ------------------ the S-expression printer and parser ---------------- *)

\* A string is the sequence of its characters.
Str1(c) == <<c>>

\* Array.prototype.join(" ") of a list of strings
joinSpace_noSeparator(a, b) == a \o b

joinSpace(a, b) == a \o Str1(" ") \o b

RECURSIVE join(_)
join(strs) ==
  IF Len(strs) = 0 THEN <<>>
  ELSE IF Len(strs) = 1 THEN strs[1]
  ELSE joinSpace(strs[1], join(Tail(strs)))

RECURSIVE printTerm(_)
printTerm(term) ==
  IF Len(term.children) = 0 THEN term.op
  ELSE Str1("(") \o term.op \o Str1(" ")
         \o join([i \in 1..Len(term.children) |-> printTerm(term.children[i])])
         \o Str1(")")

RECURSIVE printPattern(_)
printPattern(pattern) ==
  IF pattern.tag = "var" THEN Str1("?") \o pattern.name
  ELSE IF Len(pattern.children) = 0 THEN pattern.op
  ELSE Str1("(") \o pattern.op \o Str1(" ")
         \o join([i \in 1..Len(pattern.children) |-> printPattern(pattern.children[i])])
         \o Str1(")")

\* The character classes of the regular expression /[()]|[^\s()]+/g
isParen(c) == c \in {"(", ")"}

isSpace(c) == c = " "

\* input.match(/[()]|[^\s()]+/g) ?? []: every parenthesis is a token, and so
\* is every longest run of other characters that are not white space.
RECURSIVE tokenizeFrom(_, _, _, _)
tokenizeFrom(input, i, run, tokens) ==
  LET flushed == IF run = <<>> THEN tokens ELSE Append(tokens, run)
  IN IF i > Len(input) THEN flushed
     ELSE IF isParen(input[i]) THEN tokenizeFrom(input, i + 1, <<>>, Append(flushed, Str1(input[i])))
     ELSE IF isSpace(input[i]) THEN tokenizeFrom(input, i + 1, <<>>, flushed)
     ELSE tokenizeFrom(input, i + 1, Append(run, input[i]), tokens)

tokenize(input) == tokenizeFrom(input, 1, <<>>, <<>>)

\* type Sexp = string | Sexp[]
SexpAtom(token) == [atom |-> TRUE, s |-> token, items |-> <<>>]

SexpList(list) == [atom |-> FALSE, s |-> <<>>, items |-> list]

\* throw new Error(message), where parseSexp would return [Sexp, number]
ThrowSexp(message) == [error |-> message, sexp |-> SexpList(<<>>), pos |-> 0]

\* parseSexp(tokens, pos): pos counts from 0 as in the code.
RECURSIVE parseSexp(_, _)
RECURSIVE parseSexpLoop(_, _, _)
RECURSIVE parseSexpNext(_, _, _)
parseSexp(tokens, pos) ==
  IF pos >= Len(tokens) THEN ThrowSexp("Unexpected end of input")
  ELSE IF tokens[pos + 1] = Str1(")") THEN ThrowSexp("Unexpected ')'")
  ELSE IF tokens[pos + 1] # Str1("(")
       THEN [error |-> "", sexp |-> SexpAtom(tokens[pos + 1]), pos |-> pos + 1]
  ELSE parseSexpLoop(tokens, <<>>, pos + 1)

\* the while loop of parseSexp and what follows it
parseSexpLoop(tokens, list, i) ==
  IF i < Len(tokens) /\ tokens[i + 1] # Str1(")")
  THEN parseSexpNext(tokens, list, parseSexp(tokens, i))
  ELSE IF i >= Len(tokens) THEN ThrowSexp("Expected ')'")
  ELSE [error |-> "", sexp |-> SexpList(list), pos |-> i + 1]

\* list.push(elem); i = next  (an exception of the inner call propagates)
parseSexpNext(tokens, list, r) ==
  IF r.error # "" THEN r ELSE parseSexpLoop(tokens, Append(list, r.sexp), r.pos)

\* A returned tree, and a thrown Error.
Returned(tree) == [error |-> "", value |-> tree]

Thrown(message) == [error |-> message, value |-> <<>>]

\* sexp.length === 0
emptyList_never(sexp) == FALSE

emptyList(sexp) == Len(sexp.items) = 0

\* tail.map(f): the first exception among the results is the one thrown
RECURSIVE mapResults(_, _, _)
mapResults(results, i, done) ==
  IF i > Len(results) THEN Returned(done)
  ELSE IF results[i].error # "" THEN results[i]
  ELSE mapResults(results, i + 1, Append(done, results[i].value))

\* { op: head, children: tail.map(sexpToTerm) }
termOf(head, children) ==
  IF children.error # "" THEN children ELSE Returned(mkTerm(head.s, children.value))

RECURSIVE sexpToTerm(_)
sexpToTerm(sexp) ==
  IF sexp.atom THEN Returned(mkTerm(sexp.s, <<>>))
  ELSE IF emptyList(sexp) THEN Thrown("Expected operator after '('")
  ELSE IF ~Head(sexp.items).atom THEN Thrown("Operator must be an atom")
  ELSE termOf(Head(sexp.items),
              mapResults([i \in 1..(Len(sexp.items) - 1) |-> sexpToTerm(sexp.items[i + 1])],
                         1, <<>>))

\* sexp.startsWith("?")
startsWithQuestion_never(str) == FALSE

startsWithQuestion(str) == Len(str) > 0 /\ str[1] = "?"

\* { tag: "node", op: head, children: tail.map(sexpToPattern) }
patternOf(head, children) ==
  IF children.error # "" THEN children ELSE Returned(PNode(head.s, children.value))

RECURSIVE sexpToPattern(_)
sexpToPattern(sexp) ==
  IF sexp.atom
  THEN IF startsWithQuestion(sexp.s) THEN Returned(PVar(Tail(sexp.s)))
       ELSE Returned(PNode(sexp.s, <<>>))
  ELSE IF emptyList(sexp) THEN Thrown("Expected operator after '('")
  ELSE IF ~Head(sexp.items).atom THEN Thrown("Operator must be an atom")
  ELSE patternOf(Head(sexp.items),
                 mapResults([i \in 1..(Len(sexp.items) - 1) |-> sexpToPattern(sexp.items[i + 1])],
                            1, <<>>))

\* pos < tokens.length
tokensLeft_never(pos, tokens) == FALSE

tokensLeft(pos, tokens) == pos < Len(tokens)

parseTermTokens(tokens, r) ==
  IF r.error # "" THEN Thrown(r.error)
  ELSE IF tokensLeft(r.pos, tokens) THEN Thrown("Unexpected tokens")
  ELSE sexpToTerm(r.sexp)

parseTerm(input) == parseTermTokens(tokenize(input), parseSexp(tokenize(input), 0))

parsePatternTokens(tokens, r) ==
  IF r.error # "" THEN Thrown(r.error)
  ELSE IF tokensLeft(r.pos, tokens) THEN Thrown("Unexpected tokens")
  ELSE sexpToPattern(r.sexp)

parsePattern(input) == parsePatternTokens(tokenize(input), parseSexp(tokenize(input), 0))

\* The characters typed into an input, the operators of the printed terms
\* and patterns and the names of their variables: well-formed atoms, the
\* empty string, and strings with a parenthesis or a blank in them.
CharsL == {"a", "?", "(", ")", " "}

OpsL == {<<"a">>, <<"?", "a">>, <<>>, <<"(">>}

PatternOpsL == {<<"a">>, <<"?", "a">>, <<"a", " ">>}

NamesL == {<<"a">>, <<"?">>, <<" ">>}

\* Sequences of at most MaxArityL members of S.
ChildrenL(S) == UNION {[1..n -> S] : n \in 0..MaxArityL}

RECURSIVE TermsL(_)
TermsL(d) ==
  IF d = 0 THEN {mkTerm(op, <<>>) : op \in OpsL}
  ELSE {mkTerm(op, cs) : op \in OpsL, cs \in ChildrenL(TermsL(d - 1))}

RECURSIVE PatternsL(_)
PatternsL(d) ==
  IF d = 0 THEN {PVar(n) : n \in NamesL} \cup {PNode(op, <<>>) : op \in PatternOpsL}
  ELSE {PVar(n) : n \in NamesL}
         \cup {PNode(op, cs) : op \in PatternOpsL, cs \in ChildrenL(PatternsL(d - 1))}

\* No call made yet on the text typed so far.
NoResult == [error |-> "none", value |-> <<>>]

InitL ==
  /\ lang = [op |-> "typed", from |-> "typed", text |-> <<>>, tree |-> <<>>,
             result |-> NoResult]
  /\ parent = EmptyFun
  /\ rank = EmptyFun
  /\ classes = EmptyFun
  /\ order = <<>>
  /\ hashcons = EmptyFun
  /\ tracked = NoCall
  /\ sat = Idle
  /\ uf = NoModel
  /\ wl = NoOlder

\* One more character of the input of parseTerm or parsePattern.
TypeL ==
  /\ lang.op = "typed"
  /\ Len(lang.text) < MaxText
  /\ \E c \in CharsL : lang' = [lang EXCEPT !.text = Append(@, c)]
  /\ UNCHANGED <<parent, rank, classes, order, hashcons, tracked, sat, uf, wl>>

\* printTerm(t)
PrintTermL ==
  /\ lang.op = "typed"
  /\ lang.text = <<>>
  /\ \E t \in TermsL(MaxDepthL) :
       lang' = [op |-> "printTerm", from |-> "typed", text |-> printTerm(t), tree |-> t,
                result |-> NoResult]
  /\ UNCHANGED <<parent, rank, classes, order, hashcons, tracked, sat, uf, wl>>

\* printPattern(p)
PrintPatternL ==
  /\ lang.op = "typed"
  /\ lang.text = <<>>
  /\ \E p \in PatternsL(MaxDepthL) :
       lang' = [op |-> "printPattern", from |-> "typed", text |-> printPattern(p),
                tree |-> p, result |-> NoResult]
  /\ UNCHANGED <<parent, rank, classes, order, hashcons, tracked, sat, uf, wl>>

\* parseTerm(input), of a typed input or of what printTerm returned
ParseTermL ==
  /\ lang.op \in {"typed", "printTerm"}
  /\ lang' = [lang EXCEPT !.op = "parseTerm", !.from = lang.op,
                          !.result = parseTerm(lang.text)]
  /\ UNCHANGED <<parent, rank, classes, order, hashcons, tracked, sat, uf, wl>>

\* parsePattern(input), of a typed input or of what printPattern returned
ParsePatternL ==
  /\ lang.op \in {"typed", "printPattern"}
  /\ lang' = [lang EXCEPT !.op = "parsePattern", !.from = lang.op,
                          !.result = parsePattern(lang.text)]
  /\ UNCHANGED <<parent, rank, classes, order, hashcons, tracked, sat, uf, wl>>

NextL == TypeL \/ PrintTermL \/ PrintPatternL \/ ParseTermL \/ ParsePatternL

SpecL == InitL /\ [][NextL]_vars

(* ----------------------- views of the current state -------------------- *)

Ids == DOMAIN parent

IsRoot(x) == parent[x] = x

find0(x) == Root(parent, x)

\* canonicalize(n) in the current state
Canon(n) == canonicalize(parent, n).node

HasChild(n) == n.children # <<>>

(* ------------------------------- C1 ------------------------------------ *)

\* C1: the e-graph is congruence-closed: two e-nodes of the classes that have
\* the same op and pairwise find-equal children belong to classes with the
\* same union-find root.
C1_CongruenceClosed ==
  \A c1 \in DOMAIN classes, c2 \in DOMAIN classes :
    \A n1 \in Range(classes[c1].nodes), n2 \in Range(classes[c2].nodes) :
      Canon(n1) = Canon(n2) => find0(c1) = find0(c2)

(* ------------------------------- C2 ------------------------------------ *)

\* C2: a second addTerm(t), with only merges since the first one, returns an
\* id in the union-find set of the first call's id and creates no e-class.
C2_AddTermIdempotent ==
  tracked.id # Undef =>
    LET r == addTerm(Cur, tracked.term)
    IN /\ ~r.threw
       /\ Root(r.eg.parent, r.ret) = Root(r.eg.parent, tracked.id)
       /\ size(r.eg.parent) = size(parent)
       /\ classCount(r.eg) = classCount(Cur)

(* --------------------------- C3, C4, C5 -------------------------------- *)

C4_TotalCoverage ==
  \A n \in DOMAIN hashcons :
    LET c == hashcons[n]
    IN /\ c \in Ids
       /\ IsRoot(c)
       /\ c \in DOMAIN classes
       /\ n \in Range(classes[c].nodes)

\* C5: every key of classes is a union-find root.
C5_ClassKeysAreRoots == \A c \in DOMAIN classes : c \in Ids /\ IsRoot(c)

\* A merge has removed an e-class: some id is no longer a root.
C5_Witness ==
  /\ \E x \in Ids : ~IsRoot(x)
  /\ DOMAIN classes # {}
  /\ DOMAIN classes # Ids

(* ------------------------------- C6 ------------------------------------ *)

SamePartition(p1, p2) ==
  /\ DOMAIN p1 = DOMAIN p2
  /\ \A x \in DOMAIN p1, y \in DOMAIN p1 : connected(p1, x, y) <=> connected(p2, x, y)

\* C6: merge(a, b) returns false exactly when a and b are already in the same
\* union-find set, and then classes, hashcons and the partition of the ids
\* are unchanged; otherwise it returns true and afterwards find(a) = find(b).
C6_MergeResult ==
  \A a \in Ids, b \in Ids :
    LET r == merge(Cur, a, b)
    IN /\ (r.ret = FALSE) <=> connected(parent, a, b)
       /\ r.ret = FALSE =>
            /\ r.eg.classes = classes
            /\ r.eg.hashcons = hashcons
            /\ SamePartition(r.eg.parent, parent)
       /\ r.ret = TRUE => connected(r.eg.parent, a, b)

\* Both outcomes of merge are possible: two ids already merged, two not yet.
C6_Witness ==
  /\ \E a \in Ids, b \in Ids : a # b /\ connected(parent, a, b)
  /\ \E a \in Ids, b \in Ids : ~connected(parent, a, b)

(* ------------------------------ C7, C8 --------------------------------- *)

\* One round of the size computation: the smallest 1 + sum of the children's
\* sizes over the nodes of each class, MAX_VALUE standing for "none yet".
RECURSIVE SumSizes(_, _)
SumSizes(cost, cs) ==
  IF cs = <<>> THEN 0 ELSE FAdd(cost[find0(Head(cs))], SumSizes(cost, Tail(cs)))

SizeRound(cost) ==
  [c \in DOMAIN classes |->
     LET S == {FAdd(1, SumSizes(cost, n.children)) : n \in Range(classes[c].nodes)}
     IN CHOOSE m \in S : \A k \in S : m <= k]

RECURSIVE SizeRounds(_, _)
SizeRounds(cost, k) == IF k = 0 THEN cost ELSE SizeRounds(SizeRound(cost), k - 1)

\* The node count of the smallest term each e-class represents.
SmallestSize ==
  SizeRounds([c \in DOMAIN classes |-> MAX_VALUE], Cardinality(DOMAIN classes))

RECURSIVE termSize(_)
RECURSIVE termSizes(_)
termSizes(ts) == IF ts = <<>> THEN 0 ELSE termSize(Head(ts)) + termSizes(Tail(ts))
termSize(t) == 1 + termSizes(t.children)

\* A complete ground term: no node of it is the undefined value.
RECURSIVE Complete(_)
Complete(t) ==
  /\ t # UndefTerm
  /\ \A i \in 1..Len(t.children) : Complete(t.children[i])

\* The e-class of id c represents term t.
RECURSIVE Represents(_, _)
Represents(c, t) ==
  \E n \in Range(classes[find0(c)].nodes) :
    /\ n.op = t.op
    /\ Len(n.children) = Len(t.children)
    /\ \A i \in 1..Len(n.children) : Represents(n.children[i], t.children[i])

\* C7: the term extractSmallest returns has the minimum node count among the
\* terms its e-class represents.
C7_ExtractionMinimal ==
  \A e \in Ids :
    LET r == extractSmallest(Cur, e)
    IN (~r.threw /\ Complete(r.term)) => termSize(r.term) = SmallestSize[find0(e)]

\* C8: extractSmallest returns, without throwing, a complete ground term that
\* its e-class represents, and a size equal to that term's node count.
C8_ExtractionSucceeds ==
  \A e \in Ids :
    LET r == extractSmallest(Cur, e)
    IN /\ ~r.threw
       /\ Complete(r.term)
       /\ Represents(e, r.term)
       /\ r.size = termSize(r.term)

(* ------------------------------ C9, C10 -------------------------------- *)

\* The e-graph right after ematch(q) has been drained.
AfterEmatch(q) == [Cur EXCEPT !.parent = ematch(Cur, q).parent]

\* C9: for every pair (subst, e) that ematch(q) yields, addPattern(subst, q)
\* returns an id in the union-find set of e.
C9_MatcherSound ==
  \A q \in PatternsM :
    LET out == ematch(Cur, q).out
    IN \A i \in 1..Len(out) :
         LET r == addPattern(AfterEmatch(q), out[i][1], q)
         IN /\ ~r.threw
            /\ r.ret # Undef
            /\ Root(r.eg.parent, r.ret) = Root(r.eg.parent, out[i][2])

\* The e-class of id c holds an instance of pattern q under the assignment
\* sigma of e-class ids to the variables of q.
RECURSIVE Instance(_, _, _)
Instance(c, q, sigma) ==
  IF q.tag = "var" THEN find0(sigma[q.name]) = find0(c)
  ELSE \E n \in Range(classes[find0(c)].nodes) :
         /\ n.op = q.op
         /\ Len(n.children) = Len(q.children)
         /\ \A i \in 1..Len(n.children) : Instance(n.children[i], q.children[i], sigma)

\* C10: if e-class e holds an instance of q under sigma, then ematch(q)
\* yields a pair (subst, e2) with find(e2) = find(e) and subst equal to
\* sigma up to find.
C10_MatcherComplete ==
  \A q \in PatternsM :
    LET out == ematch(Cur, q).out
    IN \A e \in DOMAIN classes : \A sigma \in [PatternVars(q) -> DOMAIN classes] :
         Instance(e, q, sigma) =>
           \E i \in 1..Len(out) :
             /\ find0(out[i][2]) = find0(e)
             /\ PatternVars(q) \subseteq DOMAIN out[i][1]
             /\ \A v \in PatternVars(q) : find0(out[i][1][v]) = find0(sigma[v])

C10_Witness ==
  /\ \E c \in DOMAIN classes : \E n \in Range(classes[c].nodes) :
       /\ Len(n.children) = 2
       /\ n.children[1] # n.children[2]
       /\ find0(n.children[1]) = find0(n.children[2])
  /\ ematch(Cur, PNode(Unary, <<PVar("x"), PVar("x")>>)).out # <<>>

(* --------------------------- C11, C12, C13 ----------------------------- *)

\* The e-class of id c holds a node that conforms to the shape of pattern q:
\* same operator and same number of children at every pattern node.
RECURSIVE Conforms(_, _)
Conforms(c, q) ==
  IF q.tag = "var" THEN TRUE
  ELSE \E n \in Range(classes[find0(c)].nodes) :
         /\ n.op = q.op
         /\ Len(n.children) = Len(q.children)
         /\ \A i \in 1..Len(n.children) : Conforms(n.children[i], q.children[i])

\* C11: ematch never matches a pattern node against an e-node whose number
\* of children differs from the pattern node's: every e-class it yields
\* holds nodes of the pattern's operators and arities.
C11_ArityRespected ==
  \A q \in PatternsM :
    LET out == ematch(Cur, q).out
    IN \A i \in 1..Len(out) : Conforms(out[i][2], q)

\* C12: every substitution ematch(q) yields binds every variable of q to a
\* defined e-class id.
C12_SubstTotal ==
  \A q \in PatternsM :
    LET out == ematch(Cur, q).out
    IN \A i \in 1..Len(out) :
         \A v \in PatternVars(q) :
           v \in DOMAIN out[i][1] /\ out[i][1][v] \in Ids

\* The e-class of id c holds a node that the matcher pairs with pattern q
\* under sigma: children are paired position by position as far as both
\* lists go, and every variable met is bound to the set of the child it sits
\* against.
RECURSIVE Paired(_, _, _)
Paired(c, q, sigma) ==
  IF q.tag = "var"
  THEN q.name \in DOMAIN sigma /\ find0(sigma[q.name]) = find0(c)
  ELSE \E n \in Range(classes[find0(c)].nodes) :
         /\ n.op = q.op
         /\ \A i \in 1..Min(Len(n.children), Len(q.children)) :
              Paired(n.children[i], q.children[i], sigma)

\* C13: ematch yields a match only if all occurrences of each variable are
\* matched against children in one union-find set: (f ?x ?x) matches an
\* e-node f(c1, c2) only when find(c1) = find(c2).
C13_RepeatedVariable ==
  \A q \in PatternsM :
    LET out == ematch(Cur, q).out
    IN \A i \in 1..Len(out) : Paired(out[i][2], q, out[i][1])

\* An e-node f(c1, c2) whose children are in different sets: (f ?x ?y)
\* matches its class and (f ?x ?x) does not.
C13_Witness ==
  \E c \in DOMAIN classes :
    /\ \E n \in Range(classes[c].nodes) :
         Len(n.children) = 2 /\ find0(n.children[1]) # find0(n.children[2])
    /\ \E i \in 1..Len(ematch(Cur, PNode(Unary, <<PVar("x"), PVar("y")>>)).out) :
         ematch(Cur, PNode(Unary, <<PVar("x"), PVar("y")>>)).out[i][2] = c
    /\ \A i \in 1..Len(ematch(Cur, PNode(Unary, <<PVar("x"), PVar("x")>>)).out) :
         ematch(Cur, PNode(Unary, <<PVar("x"), PVar("x")>>)).out[i][2] # c

(* ------------------------------- C14 ----------------------------------- *)

\* Every variable of the right-hand side of each rewrite occurs in its
\* left-hand side.
RhsVarsBound(rewrites) ==
  \A k \in 1..Len(rewrites) :
    PatternVars(rewrites[k][2]) \subseteq PatternVars(rewrites[k][1])

\* C14: on a rewrite list in which each right-hand-side variable also occurs
\* in the left-hand side, equality_saturation does not throw and what it
\* returns is a term.
C14_SaturationReturns ==
  RhsVarsBound(sat.rewrites) =>
    /\ sat.pc # "threw"
    /\ sat.pc = "done" => Complete(sat.result)

(* ------------------------------- C15 ----------------------------------- *)

\* The call is in its loop and its next sweep takes the e-graph beyond the
\* MaxIdsS ids up to which the call is followed.
BeyondMaxIdsS ==
  sat.pc = "loop" /\ size(sweep(Cur, sat.rewrites, 1).eg.parent) > MaxIdsS

\* C15: equality_saturation performs at most maxIteration sweeps, 16 when
\* the option is omitted, and every call that has entered the loop leaves
\* it: each sweep ends and the call comes to its end.
C15_SweepsBounded ==
  /\ [](sat.sweeps <= sat.maxIteration)
  /\ [](sat.pc = "loop" => <>(sat.pc \in {"done", "threw"} \/ BeyondMaxIdsS))

\* A call stopped by the cap after two sweeps that both made progress, and
\* returned.
C15_Witness ==
  sat.pc = "done" /\ sat.stop = "cap" /\ sat.sweeps = sat.maxIteration /\ sat.sweeps >= 2

(* ------------------------------- C16 ----------------------------------- *)

\* The call has left its loop because a sweep changed neither count.
StoppedByProgress == sat.pc \in {"extract", "done"} /\ sat.stop = "progress"

\* C16: when the loop is left because a sweep changed neither classCount nor
\* nodeCount, one more sweep of the same rewrites over the resulting
\* e-graph changes neither classCount nor nodeCount.
C16_FixedPoint ==
  StoppedByProgress =>
    LET r == sweep(Cur, sat.rewrites, 1)
    IN ~r.threw /\ ~madeProgress(Cur, r.eg)

\* A call that left its loop by the progress test after a sweep that had
\* rewritten the e-graph.
C16_Witness == StoppedByProgress /\ sat.sweeps >= 2 /\ size(parent) > termSize(sat.term)

(* ------------------------------- C17 ----------------------------------- *)

RECURSIVE Subterms(_)
Subterms(t) == {t} \cup UNION {Subterms(t.children[i]) : i \in 1..Len(t.children)}

\* The ground term that pattern q denotes under the assignment sigma of
\* ground terms to its variables.
RECURSIVE inst(_, _)
inst(q, sigma) ==
  IF q.tag = "var" THEN sigma[q.name]
  ELSE mkTerm(q.op, [i \in 1..Len(q.children) |-> inst(q.children[i], sigma)])

RECURSIVE Subpatterns(_)
Subpatterns(q) ==
  IF q.tag = "var" THEN {q}
  ELSE {q} \cup UNION {Subpatterns(q.children[i]) : i \in 1..Len(q.children)}

\* The ground terms that the rewrites build at a leaf: each sub-pattern of
\* a rewrite with all its variables set to the same leaf.
PatternTerms ==
  {inst(q, [v \in PatternVars(q) |-> l]) :
     q \in UNION {Subpatterns(sat.rewrites[k][1]) \cup Subpatterns(sat.rewrites[k][2]) :
                   k \in 1..Len(sat.rewrites)},
     l \in TermsUpTo(0)}

\* Some e-class of the e-graph represents t.
Held(t) == \E c \in DOMAIN classes : Represents(c, t)

\* The ground terms assigned to variables: those among the subterms of the
\* input term, the leaves and the terms the rewrites build at a leaf that
\* the e-graph represents.  (A represented instance of a left-hand side has
\* represented terms at its variables.)
GroundRange ==
  {t \in Subterms(sat.term) \cup TermsUpTo(0) \cup PatternTerms : Held(t)}

\* The pairs [t1, t2] that one application of rewrite k at the root equates.
RootSteps(k) ==
  {<<inst(sat.rewrites[k][1], sigma), inst(sat.rewrites[k][2], sigma)>> :
     sigma \in [PatternVars(sat.rewrites[k][1]) -> GroundRange]}

\* The pair p, and p under one more operator f: an application of the
\* rewrite below the root equates the two terms as well.
InContext(p) ==
  {p} \cup {<<mkTerm(Unary, <<p[1]>>), mkTerm(Unary, <<p[2]>>)>>}
      \cup {<<mkTerm(Unary, <<p[1], u>>), mkTerm(Unary, <<p[2], u>>)>> : u \in TermsUpTo(0)}
      \cup {<<mkTerm(Unary, <<u, p[1]>>), mkTerm(Unary, <<u, p[2]>>)>> : u \in TermsUpTo(0)}

\* The pairs that one application of a rewrite, at the root or under one
\* operator, equates.
Steps == UNION {InContext(p) : p \in UNION {RootSteps(k) : k \in 1..Len(sat.rewrites)}}

\* find(addTerm(t1)) = find(addTerm(t2)) on the current e-graph
SameClass(t1, t2) ==
  LET r1 == addTerm(Cur, t1)
      r2 == addTerm(r1.eg, t2)
  IN /\ ~r1.threw
     /\ ~r2.threw
     /\ Root(r2.eg.parent, r1.ret) = Root(r2.eg.parent, r2.ret)

\* C17: after saturation has stopped by the progress criterion, a ground
\* term t1 that the e-graph represents and a distinct term t2 that an
\* application of the rules turns it into are added to one e-class:
\* find(addTerm(t1)) = find(addTerm(t2)).
C17_RepresentedTerms ==
  (StoppedByProgress /\ RhsVarsBound(sat.rewrites)) =>
    \A p \in Steps : Held(p[1]) => SameClass(p[1], p[2])

(* ------------------------------- C18 ----------------------------------- *)

\* The call of main(): the term (/ (* a 2) 2), the four rewrites in their
\* order and no options.
MainCall ==
  sat.term = MainTerm /\ sat.rewrites = MainRewrites /\ sat.maxIteration = DefaultMaxIteration

\* C18: equality_saturation on (/ (* a 2) 2) with the rewrites
\* (* ?x 2) -> (<< ?x 1), (/ (* ?x ?y) ?z) -> (* ?x (/ ?y ?z)),
\* (/ ?x ?x) -> 1, (* ?x 1) -> ?x and the default iteration cap does not
\* throw and returns the term a.
C18_MainReturnsA ==
  MainCall => /\ sat.pc # "threw"
              /\ sat.pc = "done" => sat.result = Leaf("a")

\* main() has returned, after a sweep that rewrote the term and one that
\* changed nothing.
C18_Witness ==
  MainCall /\ sat.pc = "done" /\ sat.stop = "progress" /\ sat.sweeps = 2 /\ size(parent) = 8

(* ------------------------------- C19 ----------------------------------- *)

\* C19: equality_saturation(t, []) returns t: the call does not throw, and
\* on the e-graph that addTerm(t) alone has built extractSmallest returns t
\* with a size equal to t's node count.
C19_EmptyRewrites ==
  (sat.pc # "idle" /\ sat.rewrites = <<>>) =>
    /\ sat.pc # "threw"
    /\ LET r == extractSmallest(Cur, sat.eid)
       IN ~r.threw /\ r.term = sat.term /\ r.size = termSize(sat.term)
    /\ sat.pc = "done" => sat.result = sat.term

\* A term with a repeated subterm, "(f a a)", returned from a call with no
\* rewrites that went through a sweep.
C19_Witness ==
  /\ sat.pc = "done"
  /\ sat.rewrites = <<>>
  /\ sat.sweeps = 1
  /\ sat.result = sat.term
  /\ size(parent) < termSize(sat.term)

(* ------------------------------- C20 ----------------------------------- *)

\* Every rewrite's right-hand side is identical to its left-hand side.
IdentityRewrites(rewrites) ==
  \A k \in 1..Len(rewrites) : rewrites[k][2] = rewrites[k][1]

\* C20: when every rewrite's right-hand side is identical to its left-hand
\* side and the cap allows a sweep, the call does not throw, its first sweep
\* changes neither classCount nor nodeCount and is the only one, and the
\* returned term equals the input term.
C20_IdentityRewrites ==
  (sat.pc # "idle" /\ IdentityRewrites(sat.rewrites) /\ sat.maxIteration >= 1) =>
    /\ sat.pc # "threw"
    /\ sat.pc = "loop" => sat.sweeps = 0
    /\ sat.pc \in {"extract", "done"} => sat.sweeps = 1 /\ sat.stop = "progress"
    /\ sat.pc = "done" => sat.result = sat.term

(* ------------------------------- C21 ----------------------------------- *)

\* The call merge(a, b) on e-graph eg, and every merge call that its
\* repairs make, returns true only with fewer e-classes than it began with
\* and returns false only as a no-op of union.
RECURSIVE MergeShrinks(_, _, _)
RECURSIVE RepairShrinks(_, _, _, _)
MergeShrinks(eg, a, b) ==
  LET u == union(eg.parent, eg.rank, a, b)
      r == merge(eg, a, b)
  IN IF u.null THEN ~r.ret
     ELSE /\ r.ret
          /\ classCount(r.eg) < classCount(eg)
          /\ RepairShrinks(beforeRepair(eg, u),
                           beforeRepair(eg, u).classes[u.root].parents, 1, <<>>)

RepairShrinks(eg, ps, i, dedupParents) ==
  IF i > Len(ps) THEN TRUE
  ELSE LET s == repairStep(eg, ps, i, dedupParents)
       IN /\ s.nested => MergeShrinks(s.eg, s.eid1, s.eid2)
          /\ RepairShrinks(IF s.nested THEN merge(s.eg, s.eid1, s.eid2).eg ELSE s.eg,
                           ps, i + 1, s.dedup)

\* C21: every call to merge ends, with the repairs and nested merges it
\* triggers, and every merge call that returns true, nested ones included,
\* leaves classCount strictly smaller than it was when that call began.
C21_MergeShrinks ==
  \A a \in Ids, b \in Ids : MergeShrinks(Cur, a, b)

\* A merge whose repair finds two equal parents and merges their classes:
\* it removes more than one e-class.
C21_Witness ==
  \E a \in Ids, b \in Ids :
    /\ merge(Cur, a, b).ret
    /\ classCount(merge(Cur, a, b).eg) + 2 <= classCount(Cur)

(* ------------------------------- C22 ----------------------------------- *)

\* C22: on a UnionFind of n keys that only union calls have changed, each
\* union returns null exactly when the union of the naive set-of-sets
\* structure does, and connected(i, j) equals the naive connected(i, j) for
\* all keys i, j.
C22_MatchesNaive ==
  ~uf.extended =>
    /\ uf.call.op = "union" => uf.call.null = uf.call.modelNull
    /\ \A i \in Ids, j \in Ids :
         connectedCall(parent, i, j).result = modelConnected(uf.sets, i, j)

\* A union has joined two sets of two keys each, and a key outside them
\* remains.
C22_Witness ==
  /\ ~uf.extended
  /\ uf.call.op = "union"
  /\ ~uf.call.null
  /\ \E i \in 1..Len(uf.sets) : Cardinality(uf.sets[i]) >= 3
  /\ \E i \in Ids, j \in Ids : ~modelConnected(uf.sets, i, j)

(* ------------------------------- C23 ----------------------------------- *)

\* The keys met by following parent pointers from x.
RECURSIVE Chain(_, _)
Chain(p, x) == IF p[x] = x THEN {x} ELSE {x} \cup Chain(p, p[x])

\* x and y are in one set of the forest p.
InSameSet(p, x, y) == Chain(p, x) \cap Chain(p, y) # {}

\* C23: union(x, y) returns null exactly when x and y are already in the
\* same set; a second union(x, y) right after the first returns null; and
\* on a new structure the call returns non-null exactly when x # y.
C23_NullIffJoined ==
  \A x \in Ids, y \in Ids :
    LET u == union(parent, rank, x, y)
    IN /\ u.null <=> InSameSet(parent, x, y)
       /\ union(u.parent, u.rank, x, y).null
       /\ uf.call.op = "new" => (u.null <=> x = y)

\* Two distinct keys of one set, neither of them its root, after a union:
\* the union of the two returns null.
C23_Witness ==
  /\ uf.call.op = "union"
  /\ \E x \in Ids, y \in Ids :
       /\ x # y /\ parent[x] # x /\ parent[y] # y
       /\ union(parent, rank, x, y).null

(* ------------------------------- C24 ----------------------------------- *)

\* C24: when union(x, y) returns non-null, child was a root before the call
\* and is none after it, root is the representative of x and of y after
\* it, the root of lower rank is the one absorbed, on equal ranks the root
\* of x survives, and the survivor's rank grows by one on equal ranks and
\* no rank changes otherwise.
C24_SurvivorByRank ==
  \A x \in Ids, y \in Ids :
    LET u == union(parent, rank, x, y)
        rootX == Root(parent, x)
        rootY == Root(parent, y)
    IN ~u.null =>
         /\ parent[u.child] = u.child
         /\ u.parent[u.child] # u.child
         /\ u.parent[u.root] = u.root
         /\ Root(u.parent, x) = u.root /\ Root(u.parent, y) = u.root
         /\ {u.root, u.child} = {rootX, rootY}
         /\ rank[u.child] <= rank[u.root]
         /\ rank[rootX] = rank[rootY] =>
              u.root = rootX /\ u.rank = [rank EXCEPT ![rootX] = rank[rootX] + 1]
         /\ rank[rootX] # rank[rootY] => u.rank = rank

\* A union in which the root of y had the higher rank and absorbed the root
\* of x.
C24_Witness ==
  /\ uf.call.op = "union"
  /\ ~uf.call.null
  /\ uf.call.root # uf.call.x
  /\ Root(parent, uf.call.y) = uf.call.root
  /\ rank[uf.call.root] > rank[uf.call.child]
  /\ uf.call.child = uf.call.x

(* ------------------------------- C25 ----------------------------------- *)

\* C25: find(x) returns a root of the set of x: find(find(x)) = find(x)
\* and connected(x, find(x)); a second find(x) returns the same key; and
\* connected(x, y) holds exactly when find(x) = find(y).
C25_FindCanonical ==
  \A x \in Ids :
    LET f == find(parent, x)
    IN /\ find(f.parent, f.key).key = f.key
       /\ f.parent[f.key] = f.key
       /\ InSameSet(parent, x, f.key)
       /\ connectedCall(f.parent, x, f.key).result
       /\ find(f.parent, x).key = f.key
       /\ \A y \in Ids :
            connectedCall(parent, x, y).result
              <=> (f.key = find(f.parent, y).key)

\* find(x) was called on a key two links away from its root.
C25_Witness ==
  /\ uf.call.op = "find"
  /\ uf.call.key # uf.call.x
  /\ \E y \in Ids : y # uf.call.x /\ parent[y] # y /\ parent[parent[y]] # parent[y]
                      /\ Root(parent, y) = uf.call.key

(* ------------------------------- C26 ----------------------------------- *)

\* C26: connected is an equivalence relation on the allocated keys:
\* connected(x, x), connected(x, y) = connected(y, x), transitivity, and
\* after union(x, y); union(y, z) connected(x, z) holds.
C26_Equivalence ==
  \A x \in Ids :
    /\ connectedCall(parent, x, x).result
    /\ \A y \in Ids :
         /\ connectedCall(parent, x, y).result = connectedCall(parent, y, x).result
         /\ \A z \in Ids :
              /\ (connectedCall(parent, x, y).result /\ connectedCall(parent, y, z).result)
                    => connectedCall(parent, x, z).result
              /\ LET u1 == union(parent, rank, x, y)
                     u2 == union(u1.parent, u1.rank, y, z)
                 IN connectedCall(u2.parent, x, z).result

\* The second of two unions union(x, y); union(y, z) has joined three
\* distinct keys, with a fourth left out.
C26_Witness ==
  /\ uf.call.op = "union"
  /\ ~uf.call.null
  /\ \E x \in Ids :
       /\ x \notin {uf.call.x, uf.call.y}
       /\ connectedCall(parent, x, uf.call.x).result
       /\ connectedCall(parent, x, uf.call.y).result
  /\ \E w \in Ids : ~connectedCall(parent, w, uf.call.x).result

(* ------------------------------- C27 ----------------------------------- *)

\* C27: extend() returns the key equal to the size before the call, makes
\* the size one larger, makes the new key a singleton that is connected to
\* no other key, and leaves the partition of the existing keys as it was.
C27_ExtendSingleton ==
  LET e == extend(parent, rank)
  IN /\ e.key = size(parent)
     /\ size(e.parent) = size(parent) + 1
     /\ DOMAIN e.parent = DOMAIN parent \cup {e.key}
     /\ connectedCall(e.parent, e.key, e.key).result
     /\ \A x \in Ids :
          /\ ~connectedCall(e.parent, e.key, x).result
          /\ ~connectedCall(e.parent, x, e.key).result
          /\ \A y \in Ids :
               connectedCall(e.parent, x, y).result = connectedCall(parent, x, y).result

\* extend() was called after a union and returned the key 2: the two older
\* keys are still joined.
C27_Witness ==
  /\ uf.call.op = "extend"
  /\ uf.call.key >= 2
  /\ \E x \in Ids, y \in Ids : x # y /\ x # uf.call.key /\ y # uf.call.key
                                /\ connectedCall(parent, x, y).result
  /\ \A x \in Ids \ {uf.call.key} : ~connectedCall(parent, x, uf.call.key).result

(* ------------------------------- C28 ----------------------------------- *)

\* C28: disjointSets returns a map whose keys are exactly the roots and
\* whose lists partition the keys 0..size-1 as connected does: each key
\* occurs once, in the list of its own root.
C28_DisjointSets ==
  LET d == disjointSets(parent).map
  IN /\ {d[i][1] : i \in 1..Len(d)} = {x \in Ids : parent[x] = x}
     /\ \A i \in 1..Len(d), j \in 1..Len(d) : d[i][1] = d[j][1] => i = j
     /\ \A x \in Ids :
          /\ Cardinality({<<i, k>> \in (1..Len(d)) \X (1..size(parent)) :
                            k <= Len(d[i][2]) /\ d[i][2][k] = x}) = 1
          /\ \E i \in 1..Len(d) :
               d[i][1] = Root(parent, x) /\ x \in Range(d[i][2])
     /\ \A i \in 1..Len(d) :
          \A x \in Range(d[i][2]) : \A y \in Ids :
            (y \in Range(d[i][2])) <=> connectedCall(parent, x, y).result

\* disjointSets was read after unions and an extend: it returned a set of
\* three keys and another set.
C28_Witness ==
  /\ uf.call.op = "disjointSets"
  /\ uf.extended
  /\ Len(uf.call.map) >= 2
  /\ \E i \in 1..Len(uf.call.map) : Len(uf.call.map[i][2]) >= 3

(* ------------------------------- C29 ----------------------------------- *)

\* An atom: a non-empty string without white space or parentheses.
IsAtom(str) == Len(str) > 0 /\ \A i \in 1..Len(str) : ~isParen(str[i]) /\ ~isSpace(str[i])

RECURSIVE WellFormedTerm(_)
WellFormedTerm(t) ==
  IsAtom(t.op) /\ \A i \in 1..Len(t.children) : WellFormedTerm(t.children[i])

RECURSIVE WellFormedPattern(_)
WellFormedPattern(p) ==
  IF p.tag = "var" THEN IsAtom(p.name)
  ELSE /\ IsAtom(p.op)
       /\ p.op[1] # "?"
       /\ \A i \in 1..Len(p.children) : WellFormedPattern(p.children[i])

\* C29: for every Term t whose operators are atoms, parseTerm(printTerm(t))
\* returns t, and for every Pattern p whose operators are atoms that do not
\* start with "?" and whose variable names are atoms,
\* parsePattern(printPattern(p)) returns p.
C29_RoundTrip ==
  /\ (lang.op = "parseTerm" /\ lang.from = "printTerm" /\ WellFormedTerm(lang.tree))
       => (lang.result.error = "" /\ lang.result.value = lang.tree)
  /\ (lang.op = "parsePattern" /\ lang.from = "printPattern" /\ WellFormedPattern(lang.tree))
       => (lang.result.error = "" /\ lang.result.value = lang.tree)

\* parsePattern has read back the text of a well-formed pattern of two
\* children, one of them a node over a variable, the other a variable whose
\* name starts with "?".
C29_Witness ==
  /\ lang.op = "parsePattern"
  /\ lang.from = "printPattern"
  /\ WellFormedPattern(lang.tree)
  /\ lang.tree.tag = "node"
  /\ Len(lang.tree.children) = 2
  /\ lang.tree.children[1].tag = "node"
  /\ Len(lang.tree.children[1].children) = 1
  /\ lang.tree.children[1].children[1].tag = "var"
  /\ lang.tree.children[2] = PVar(<<"?">>)
  /\ lang.result = Returned(lang.tree)

(* ------------------------------- C30 ----------------------------------- *)

\* The number of "(" less the number of ")" among tokens[i..j].
Balance(tokens, i, j) ==
  Cardinality({k \in i..j : tokens[k] = Str1("(")})
    - Cardinality({k \in i..j : tokens[k] = Str1(")")})

\* The five kinds of malformed token sequence.
IsEmptyInput(tokens) == Len(tokens) = 0

StartsWithClose(tokens) == Len(tokens) > 0 /\ tokens[1] = Str1(")")

\* some "(" is closed by no later ")"
Unterminated(tokens) ==
  \E i \in 1..Len(tokens) :
    tokens[i] = Str1("(") /\ \A j \in i..Len(tokens) : Balance(tokens, i, j) > 0

HasEmptyList(tokens) ==
  \E i \in 1..(Len(tokens) - 1) : tokens[i] = Str1("(") /\ tokens[i + 1] = Str1(")")

\* the first complete expression ends before the last token
TokensAfterFirst(tokens) ==
  /\ Len(tokens) > 1
  /\ \/ ~isParen(tokens[1][1])
     \/ /\ tokens[1] = Str1("(")
        /\ \E j \in 2..(Len(tokens) - 1) : Balance(tokens, 1, j) = 0

Malformed(tokens) ==
  \/ IsEmptyInput(tokens)
  \/ StartsWithClose(tokens)
  \/ Unterminated(tokens)
  \/ HasEmptyList(tokens)
  \/ TokensAfterFirst(tokens)

\* C30: parseTerm and parsePattern throw, and return no tree, on every
\* input whose token sequence is empty, starts with ")", leaves a list
\* unterminated, holds an empty list () at any depth, or has tokens left
\* after the first complete expression.
C30_ParseErrors ==
  Malformed(tokenize(lang.text)) =>
    /\ parseTerm(lang.text).error # ""
    /\ parseTerm(lang.text).value = <<>>
    /\ parsePattern(lang.text).error # ""
    /\ parsePattern(lang.text).value = <<>>
    /\ lang.op \in {"parseTerm", "parsePattern"} => lang.result.error \notin {"", "none"}

\* parsePattern has thrown on a typed input whose only fault is an empty
\* list inside another list.
C30_Witness ==
  /\ lang.op = "parsePattern"
  /\ lang.from = "typed"
  /\ HasEmptyList(tokenize(lang.text))
  /\ ~Unterminated(tokenize(lang.text))
  /\ ~TokensAfterFirst(tokenize(lang.text))
  /\ ~StartsWithClose(tokenize(lang.text))
  /\ Len(tokenize(lang.text)) >= 5
  /\ lang.result = Thrown("Expected operator after '('")

(* ------------------------------- C31 ----------------------------------- *)

\* some list of the token sequence has a head that begins with "?"
HasVariableHead(tokens) ==
  \E i \in 1..(Len(tokens) - 1) :
    tokens[i] = Str1("(") /\ startsWithQuestion(tokens[i + 1])

\* no node of the pattern has an op that begins with "?"
RECURSIVE NoVariableOp(_)
NoVariableOp(p) ==
  IF p.tag = "var" THEN TRUE
  ELSE /\ ~startsWithQuestion(p.op)
       /\ \A i \in 1..Len(p.children) : NoVariableOp(p.children[i])

\* C31: parsePattern throws on every input that has a list whose head atom
\* begins with "?", and never returns a node whose op begins with "?".
C31_HeadNotVariable ==
  lang.op = "parsePattern" =>
    /\ HasVariableHead(tokenize(lang.text)) => lang.result.error # ""
    /\ lang.result.error = "" => NoVariableOp(lang.result.value)

(* ------------------------------- C32 ----------------------------------- *)

\* the parents of the class of child id ci hold an entry for the e-node n
\* of class c
BackLinked(c, n, ci) ==
  /\ ci \in Ids
  /\ find0(ci) \in DOMAIN classes
  /\ \E k \in 1..Len(classes[find0(ci)].parents) :
       LET entry == classes[find0(ci)].parents[k]
       IN /\ entry[1] = n \/ Canon(entry[1]) = Canon(n)
          /\ entry[2] \in Ids
          /\ find0(entry[2]) = find0(c)

\* C32: for every e-node n of classes[c].nodes and every child id ci of n,
\* classes[find(ci)].parents has an entry whose key is n, or canonicalizes
\* to the same e-node as n, and whose value is in the union-find set of c.
C32_ParentBackLinks ==
  \A c \in DOMAIN classes :
    \A n \in Range(classes[c].nodes) :
      \A i \in 1..Len(n.children) : BackLinked(c, n, n.children[i])

(* ------------------------------- C33 ----------------------------------- *)

\* A class's nodes are the e-nodes ever inserted by an add that returned an
\* id of the class's union-find set: add creates the class with the one
\* inserted e-node, and merge only unites node sets.
\* C33: the canonical form of every e-node ever inserted is a key of
\* hashcons whose value lies in the union-find set of the id that add
\* returned for it.
C33_NodesNeverLost ==
  \A c \in DOMAIN classes :
    \A n \in Range(classes[c].nodes) :
      /\ Canon(n) \in DOMAIN hashcons
      /\ hashcons[Canon(n)] \in Ids
      /\ find0(hashcons[Canon(n)]) = find0(c)

(* ------------------------------- C34 ----------------------------------- *)

\* merge(a, b) on the e-graph eg returned true and left the canonical form
\* of the absorbed class's originalNode mapped to an id of the set of a, b.
OriginalRehomed(eg, a, b) ==
  LET u == union(eg.parent, eg.rank, a, b)
      m == merge(eg, a, b)
      k == canonicalize(m.eg.parent, eg.classes[u.child].originalNode).node
  IN m.ret =>
       /\ k \in DOMAIN m.eg.hashcons
       /\ m.eg.hashcons[k] \in DOMAIN m.eg.parent
       /\ Root(m.eg.parent, m.eg.hashcons[k]) = Root(m.eg.parent, a)

\* C34: after merge(a, b) returns true, hashcons maps the canonical form of
\* the absorbed class's originalNode to a defined id in the union-find set
\* of a and b.
C34_OriginalNodeRehomed ==
  \A a \in Ids, b \in Ids : OriginalRehomed(Cur, a, b)

(* ------------------------------- C35 ----------------------------------- *)

\* The e-nodes handed to add: an operator over at most two allocated ids.
ENodesOver(ids) ==
  {createENode(op, cs) : op \in Leaves \cup {Unary},
                         cs \in UNION {[1..n -> ids] : n \in 0..2}}

\* add(enode) on the e-graph eg, the canonical form of enode being no key
\* of hashcons, does what C35 says.
AddsFresh(eg, enode) ==
  LET r == add(eg, enode)
      n == canonicalize(eg.parent, enode).node
  IN n \notin DOMAIN eg.hashcons =>
       /\ ~r.threw
       /\ r.ret \notin DOMAIN eg.parent
       /\ r.ret \in DOMAIN r.eg.parent
       /\ classCount(r.eg) = classCount(eg) + 1
       /\ nodeCount(r.eg) = nodeCount(eg) + 1
       /\ r.ret \in DOMAIN r.eg.classes
       /\ r.eg.classes[r.ret].nodes = <<n>>
       /\ \A i \in 1..Len(n.children) :
            /\ n.children[i] \in DOMAIN r.eg.classes
            /\ <<n, r.ret>> \in Range(r.eg.classes[n.children[i]].parents)
       /\ \A x \in DOMAIN eg.parent, y \in DOMAIN eg.parent :
            (Root(r.eg.parent, x) = Root(r.eg.parent, y))
              <=> (Root(eg.parent, x) = Root(eg.parent, y))
       /\ \A x \in DOMAIN eg.parent : Root(r.eg.parent, x) # r.ret

\* C35: add of an e-node whose canonical form is not a hashcons key returns
\* an id never returned before, raises classCount and nodeCount by one
\* each, creates a class whose node set is that canonical e-node alone,
\* records the node in the parents of each of its children's classes, and
\* leaves the union-find partition of the earlier ids as it was.
C35_AddFresh ==
  \A enode \in ENodesOver(Ids) : AddsFresh(Cur, enode)

\* The newest id is a class of one e-node whose child is the root of a set
\* of two ids or more and has the e-node among its parents.
C35_Witness ==
  /\ size(parent) >= 3
  /\ (size(parent) - 1) \in DOMAIN classes
  /\ Len(classes[size(parent) - 1].nodes) = 1
  /\ LET e == size(parent) - 1
         n == classes[e].nodes[1]
     IN /\ Len(n.children) = 1
        /\ n.children[1] \in DOMAIN classes
        /\ <<n, e>> \in Range(classes[n.children[1]].parents)
        /\ \E x \in Ids : x # n.children[1] /\ find0(x) = n.children[1]

(* ------------------------------- C36 ----------------------------------- *)

\* One step keeps to the lifecycle fresh -> live -> absorbed.
LifecycleStep ==
  /\ DOMAIN parent \subseteq DOMAIN parent'
     \* fresh -> live: a new id is a root with an entry in classes
  /\ \A x \in DOMAIN parent' \ DOMAIN parent :
       parent'[x] = x /\ x \in DOMAIN classes'
     \* live -> absorbed: only a root that a union has put under another
     \* root loses its entry
  /\ \A c \in DOMAIN classes \ DOMAIN classes' :
       c \in DOMAIN parent /\ parent[c] = c /\ parent'[c] # c
     \* absorbed for good
  /\ \A x \in DOMAIN parent :
       parent[x] # x => parent'[x] # x /\ x \notin DOMAIN classes'

\* C36: an entry leaves classes only in a merge and only for the absorbed
\* root, and an absorbed id never again is a union-find root or a key of
\* classes.
C36_Lifecycle == [][LifecycleStep]_vars

\* Two ids have been absorbed, and an e-class created after the first of
\* them is live.
C36_Witness ==
  \E x \in Ids, y \in Ids, z \in Ids :
    /\ x < y /\ x < z /\ y # z
    /\ ~IsRoot(x) /\ x \notin DOMAIN classes
    /\ ~IsRoot(y) /\ y \notin DOMAIN classes
    /\ IsRoot(z) /\ z \in DOMAIN classes

(* ------------------------------- C37 ----------------------------------- *)

\* In the e-graph eg the e-class of id c holds an instance of pattern q
\* under the substitution sigma, up to find.
RECURSIVE InstanceIn(_, _, _, _)
InstanceIn(eg, c, q, sigma) ==
  IF q.tag = "var"
  THEN /\ q.name \in DOMAIN sigma
       /\ sigma[q.name] \in DOMAIN eg.parent
       /\ Root(eg.parent, sigma[q.name]) = Root(eg.parent, c)
  ELSE /\ Root(eg.parent, c) \in DOMAIN eg.classes
       /\ \E n \in Range(eg.classes[Root(eg.parent, c)].nodes) :
            /\ n.op = q.op
            /\ Len(n.children) = Len(q.children)
            /\ \A i \in 1..Len(n.children) :
                 InstanceIn(eg, n.children[i], q.children[i], sigma)

\* What a part of a sweep left, and whether every class access in it hit an
\* entry of classes and every pair it yielded was a sound match.
Watched(r, ok) == [eg |-> r.eg, threw |-> r.threw, ok |-> ok]

\* The sweep of equality_saturation once more, step for step as lazyWorker,
\* lazyFound, lazyNodes, lazyKeys and sweep run it, with the two
\* observations made where the generator reads classes and where it yields.
RECURSIVE watchWorker(_, _, _, _, _, _)
RECURSIVE watchFound(_, _, _, _, _, _, _)
RECURSIVE watchNodes(_, _, _, _, _, _, _, _, _)
RECURSIVE watchNodesNext(_, _, _, _, _, _, _, _, _)
watchWorker(eg, todo, subst, lhs, rhs, eclass) ==
  IF todo = <<>>
  THEN Watched(rewriteOnce(eg, subst, rhs, eclass), InstanceIn(eg, eclass, lhs, subst))
  ELSE watchFound(eg, find(eg.parent, Head(todo)[2]), todo, subst, lhs, rhs, eclass)

watchFound(eg, f, todo, subst, lhs, rhs, eclass) ==
  LET pattern == Head(todo)[1]
      eid == f.key
      eg1 == [eg EXCEPT !.parent = f.parent]
  IN IF pattern.tag = "var"
     THEN IF consistent(FunGet(subst, pattern.name), eid)
          THEN watchWorker(eg1, Tail(todo), FunSet(subst, pattern.name, eid), lhs, rhs, eclass)
          ELSE [eg |-> eg1, threw |-> FALSE, ok |-> TRUE]
     ELSE IF eid \notin DOMAIN eg.classes
     THEN [eg |-> eg1, threw |-> TRUE, ok |-> FALSE]
     ELSE watchNodes(eg1, pattern, eg.classes[eid].nodes, 1, Tail(todo), subst, lhs, rhs, eclass)

watchNodes(eg, pattern, nodes, i, todo, subst, lhs, rhs, eclass) ==
  IF i > Len(nodes) THEN [eg |-> eg, threw |-> FALSE, ok |-> TRUE]
  ELSE watchNodesNext(IF pattern.op # nodes[i].op
                      THEN [eg |-> eg, threw |-> FALSE, ok |-> TRUE]
                      ELSE watchWorker(eg, zip(pattern.children, nodes[i].children) \o todo,
                                       subst, lhs, rhs, eclass),
                      pattern, nodes, i, todo, subst, lhs, rhs, eclass)

watchNodesNext(r, pattern, nodes, i, todo, subst, lhs, rhs, eclass) ==
  IF r.threw \/ ~r.ok THEN r
  ELSE watchNodes(r.eg, pattern, nodes, i + 1, todo, subst, lhs, rhs, eclass)

RECURSIVE watchKeys(_, _, _, _, _)
RECURSIVE watchKeysNext(_, _, _, _, _)
watchKeys(eg, lhs, rhs, keys, i) ==
  IF i > Len(keys) THEN [eg |-> eg, threw |-> FALSE, ok |-> TRUE]
  ELSE watchKeysNext(watchWorker(eg, <<<<lhs, keys[i]>>>>, EmptyFun, lhs, rhs, keys[i]),
                     lhs, rhs, keys, i)

watchKeysNext(r, lhs, rhs, keys, i) ==
  IF r.threw \/ ~r.ok THEN r ELSE watchKeys(r.eg, lhs, rhs, keys, i + 1)

RECURSIVE watchSweep(_, _, _)
RECURSIVE watchSweepNext(_, _, _)
watchSweep(eg, rewrites, k) ==
  IF k > Len(rewrites) THEN [eg |-> eg, threw |-> FALSE, ok |-> TRUE]
  ELSE watchSweepNext(watchKeys(eg, rewrites[k][1], rewrites[k][2], eg.order, 1), rewrites, k)

watchSweepNext(r, rewrites, k) ==
  IF r.threw \/ ~r.ok THEN r ELSE watchSweep(r.eg, rewrites, k + 1)

\* C37: in every sweep of equality_saturation, every e-class the live
\* generator of ematch reads is an entry of classes reached through find,
\* also for ids absorbed since the generator started, and every pair
\* (subst, eclass) it yields is a sound match of the left-hand side in the
\* e-graph as the rewrites so far have left it.
C37_LiveMatcherSound ==
  sat.pc = "loop" => watchSweep(Cur, sat.rewrites, 1).ok

(* ------------------------------- C39 ----------------------------------- *)

\* C39: the keys of classes are exactly the union-find roots, so that
\* classes.get(find(id)) is defined for every allocated id and classCount
\* is the number of disjoint sets.
C39_ClassesAreRoots ==
  /\ DOMAIN classes = {x \in Ids : IsRoot(x)}
  /\ \A id \in Ids : find0(id) \in DOMAIN classes
  /\ classCount(Cur) = Len(disjointSets(parent).map)

\* Three ids are in one set after a merge that repair followed with a
\* second merge, and another set is left: two roots, two classes.
C39_Witness ==
  /\ Cardinality({x \in Ids : ~IsRoot(x)}) >= 2
  /\ \E x \in Ids, y \in Ids, z \in Ids :
       x # y /\ y # z /\ x # z /\ find0(x) = find0(y) /\ find0(y) = find0(z)
  /\ classCount(Cur) = 2
  /\ Len(disjointSets(parent).map) = 2

(* ------------------------------- C40 ----------------------------------- *)

\* C40: on every e-graph and e-class id, extractSmallest, which prunes by
\* an upper bound, returns the size that the exhaustive extract_smallest of
\* the older e-graph returns.
C40_PruningKeepsSize ==
  \A e \in Ids :
    /\ ~extractSmallest(Cur, e).threw
    /\ extractSmallest(Cur, e).size = extract_smallest(Cur, e).size


(* ------------------- C38: the two EGraphs side by side ----------------- *)

\* Terms of SpecW: the terms of Spec and the binary nodes over the leaves,
\* whose add pushes the same pair twice onto one parents array.
Binary == "g"

TermsW ==
  Terms \cup {mkTerm(Binary, <<mkTerm(x, <<>>), mkTerm(y, <<>>)>>) : x \in Leaves, y \in Leaves}

\* The most ids either e-graph of SpecW allocates.
MaxIdsW == 4

\* addTerm(t) on both e-graphs
AddTermW ==
  \E t \in TermsW :
    LET r == addTerm(Cur, t)
        o == wl_addTerm(wl, t)
    IN /\ size(r.eg.parent) <= MaxIdsW
       /\ size(o.eg.parent) <= MaxIdsW
       /\ Install(r.eg)
       /\ wl' = o.eg
       /\ UNCHANGED <<tracked, sat, uf, lang>>

\* merge(a, b) on both e-graphs, a and b being ids of both
MergeW ==
  \E a \in DOMAIN parent \cap DOMAIN wl.parent, b \in DOMAIN parent \cap DOMAIN wl.parent :
    /\ Install(merge(Cur, a, b).eg)
    /\ wl' = graphOf(wl_merge(heapOf(wl), a, b).eg)
    /\ UNCHANGED <<tracked, sat, uf, lang>>

NextW == AddTermW \/ MergeW

SpecW == Init /\ [][NextW]_vars

\* C38: after any sequence of addTerm and merge calls made on both, the
\* e-graph of src/egraph.ts and the older worklist e-graph have the same
\* ids partitioned the same way, the same classCount and the same nodeCount.
C38_SameFixedPoint ==
  /\ SamePartition(parent, wl.parent)
  /\ classCount(Cur) = Cardinality(DOMAIN wl.classes)
  /\ nodeCount(Cur) = Cardinality(DOMAIN wl.hashcons)

====
